---- MODULE Spec2Model ----
(***************************************************************************)
(* pyiskra: the Impact device's update_status orchestration and the Modbus *)
(* adapter's connection handling.                                          *)
(*                                                                         *)
(* Callers are asyncio tasks on one event loop: a task runs without        *)
(* interruption until it reaches an await of a transport operation         *)
(* (client.connect, client.read_*_registers, a REST call, asyncio.sleep).  *)
(* `cur` is the task that is running; it is NoTask while every task is     *)
(* suspended and the event loop picks which await completes next.          *)
(***************************************************************************)
EXTENDS Integers, Sequences, FiniteSets, TLC

\* Bounds of the model.
NumTasks == 2
MaxCalls == 2

Tasks == 1..NumTasks
NoTask == 0

AdapterKinds == {"Modbus", "RestAPI"}
Categories == {"measurements", "counters", "time_blocks"}
MeasurementTypes == {"ACTUAL", "AVERAGE"}

\* The adapter's register reads, called on their own.
ReadOps == {"read_holding_registers", "read_input_registers"}
\* The device's decode recipes, called on their own.
DirectOps == {"get_measurements", "get_counters", "get_time_blocks_measurements"}

\* The value a snapshot field holds before the first fetch, and the value
\* get_time_blocks_measurements returns for a device without time blocks.
None == <<>>

VARIABLES
    adapter,                 \* the kind of self.adapter
    supports_time_blocks,    \* Impact.supports_time_blocks
    supports_iMC_functions,  \* Impact.supports_iMC_functions
    supports_interval_measurements,  \* Impact.supports_interval_measurements
    update_lock,             \* self.update_lock.locked()
    connected,               \* self.client.connected
    snapshot,                \* measurements / counters / time_blocks_measurements
    update_timestamp,        \* self.update_timestamp, 0 before the first stamp
    regs,                    \* the register contents the meter serves, as a version number
    now,                     \* time.time(), as the number of stamps taken
    tasks,                   \* per caller: operation, position and locals
    cur,                     \* the running task, or NoTask
    ncalls,                  \* calls started so far
    wrote,                   \* history: per snapshot field, the call that assigned it last
    last_update,             \* history: the update_status call that left the lock last
    arg,                     \* a decode under study: the registers and parameters it is given
    res,                     \* what the decode returns
    step                     \* "in" before it has run, "out" after

vars ==
    <<adapter, supports_time_blocks, supports_iMC_functions,
      supports_interval_measurements, update_lock,
      connected, snapshot, update_timestamp, regs, now, tasks, cur, ncalls,
      wrote, last_update, arg, res, step>>

\* The decode under study; the calls on the device leave it alone.
calc == <<arg, res, step>>

device ==
    <<adapter, supports_time_blocks, supports_iMC_functions,
      supports_interval_measurements>>

\* What no step of a call changes: the device's configuration and the meter's data.
fixed == <<device, regs, calc>>

----------------------------------------------------------------------------
\* The register reads a decode recipe issues, in order.
ReadsOf(cat, mt) ==
    CASE cat = "measurements" /\ mt = "ACTUAL" ->
            << [fn |-> "input", start |-> 100, count |-> 91] >>
      [] cat = "measurements" /\ mt = "AVERAGE" ->
            << [fn |-> "input", start |-> 5500, count |-> 91],
               [fn |-> "input", start |-> 5500, count |-> 2] >>
      [] cat = "counters" ->
            << [fn |-> "input", start |-> 2750, count |-> 96],
               [fn |-> "holding", start |-> 151, count |-> 1],
               [fn |-> "holding", start |-> 421, count |-> 16],
               [fn |-> "holding", start |-> 437, count |-> 64] >>
      [] cat = "time_blocks" ->
            << [fn |-> "input", start |-> 6761, count |-> 238],
               [fn |-> "holding", start |-> 990, count |-> 5],
               [fn |-> "input", start |-> 5244, count |-> 18],
               [fn |-> "input", start |-> 4901, count |-> 2],
               [fn |-> "input", start |-> 5261, count |-> 2] >>
      [] cat = "basic_info" ->
            << [fn |-> "input", start |-> 1, count |-> 14],
               [fn |-> "holding", start |-> 101, count |-> 43] >>
      [] cat = "iMC" ->
            << [fn |-> "holding", start |-> 22514, count |-> 1] >>
      [] cat = "nominal_power" ->
            << [fn |-> "holding", start |-> 148, count |-> 2],
               [fn |-> "input", start |-> 15, count |-> 4] >>
      [] cat = "tb_support" ->
            << [fn |-> "input", start |-> 13, count |-> 1] >>
      [] OTHER -> << [fn |-> "any", start |-> 0, count |-> 1] >>

\* The steps of init before its update_status (lines 61-70).
InitStages == {"basic_info", "iMC", "nominal_power", "tb_support"}

\* A caller that is not inside any call.
IdleTask ==
    [op |-> "none", pc |-> "idle", mt |-> "ACTUAL", cat |-> "none", idx |-> 0,
     hd |-> FALSE, hr |-> FALSE, found_open |-> FALSE, octx |-> "none", bad |-> FALSE, buf |-> <<>>,
     holds |-> FALSE, waited |-> FALSE,
     call |-> 0, busy |-> FALSE, waitfor |-> 0, lost |-> FALSE, err |-> "none",
     init |-> FALSE, done |-> <<>>, nupd |-> 0,
     pre |-> [c \in Categories |-> None], log |-> <<>>]

Entry(o) ==
    CASE o = "update_status" -> "us_310"
      [] o = "get_measurements" -> "gm_83"
      [] o = "get_counters" -> "gc_226"
      [] o = "get_time_blocks_measurements" -> "tb_407"
      [] o = "init" -> "in_61"
      [] OTHER -> "rd_131"

Event(r, e) == [r EXCEPT !.log = Append(@, e)]

\* The state after construction, whatever the device's support for interval
\* measurements.
Constructed ==
    /\ adapter \in AdapterKinds
    /\ supports_time_blocks \in (IF adapter = "Modbus" THEN BOOLEAN ELSE {FALSE})
    /\ supports_iMC_functions \in (IF adapter = "RestAPI" THEN BOOLEAN ELSE {FALSE})
    /\ update_lock = FALSE
    /\ connected = FALSE
    /\ snapshot = [c \in Categories |-> None]
    /\ update_timestamp = 0
    /\ regs = 1
    /\ now = 0
    /\ tasks = [t \in Tasks |-> IdleTask]
    /\ cur = NoTask
    /\ ncalls = 0
    /\ wrote = [c \in Categories |-> 0]
    /\ last_update = [call |-> 0, ok |-> FALSE]
    /\ arg = <<>> /\ res = <<>> /\ step = "none"

\* An Impact device: supports_interval_measurements = True (line 53).
Init == Constructed /\ supports_interval_measurements = TRUE

\* A device whose class or instance may have set the flag to False.
InitInterval == Constructed /\ supports_interval_measurements \in BOOLEAN

----------------------------------------------------------------------------
\* Helpers shared by the actions.

Put(f, t, r) == [f EXCEPT ![t] = r]

\* The update_status call r has opened the connection at line 322 and has not
\* yet closed it at line 331.
InOpenSpan(r) ==
    /\ r.holds
    /\ r.pc \notin {"us_310", "us_321", "us_333"}
    /\ ~(r.pc = "oc_66" /\ r.octx = "us")

\* History: the connection went down under an update_status call that had
\* opened it, by the hand of another task u.
Dropped(u) ==
    [t \in Tasks |->
        IF t # u /\ connected /\ InOpenSpan(tasks[t])
        THEN [tasks[t] EXCEPT !.lost = TRUE]
        ELSE tasks[t]]

LockedNever(l) == FALSE

\* self.update_lock.locked() at line 310.
Locked(l) == l

StillLockedNever(l) == FALSE

\* The loop condition at line 312.
StillLocked(l) == l

AfterWaitFallsThrough == "us_310"

AfterWaitStamps == "us_333"

\* Where a caller that waited goes on once the lock is free (line 314: return).
AfterWait == "returned"

IsModbusNever(a) == FALSE

\* isinstance(self.adapter, Modbus) at lines 321 and 330.
IsModbus(a) == a = "Modbus"

HandleConnectionAlways(conn) == TRUE

\* handle_connection = not self.connected (Modbus.py lines 131 and 157).
HandleConnection(conn) == ~conn

AssignsSnapshotAlways(o) == TRUE

\* Whether the caller of a decode recipe assigns the value to a snapshot field:
\* update_status does (lines 324-327), the get_* methods only return it.
AssignsSnapshot(o) == o = "update_status"

\* The lock after the call r has left `async with self.update_lock` (line 317)
\* at the end of the block.
LockAfterExit(l, r) == IF r.holds THEN FALSE ELSE l

LockKeptAfterRaise(l, r) == l

\* The lock after an exception has left the call r: `async with` releases it
\* if the call had taken it.
LockAfterRaise(l, r) == IF r.holds THEN FALSE ELSE l

\* A mistaken except clause: the exception is dropped and the call returns.
PropagateSwallowed(f, t, r, e) ==
    /\ tasks' = Put(f, t, [r EXCEPT !.pc = "returned", !.holds = FALSE])
    /\ update_lock' = (IF r.holds THEN FALSE ELSE update_lock)
    /\ last_update' =
          IF r.holds THEN [call |-> r.call, ok |-> FALSE] ELSE last_update
    /\ cur' = t

\* The exception e leaves the call of task t, whose record is r; f is the
\* tasks function the step has built so far.
Propagate(f, t, r, e) ==
    /\ tasks' = Put(f, t, [r EXCEPT !.pc = "raised", !.holds = FALSE, !.err = e])
    /\ update_lock' = LockAfterRaise(update_lock, r)
    /\ last_update' =
          IF r.holds THEN [call |-> r.call, ok |-> FALSE] ELSE last_update
    /\ cur' = t

\* Modbus.open_connection is entered (line 66: await self.client.connect()).
OpenConnection(r, who) ==
    Event([r EXCEPT !.pc = "oc_66", !.octx = who], [e |-> "open", c |-> r.cat])

\* Modbus.close_connection (line 75: self.client.close()).
CloseConnection(r) == Event(r, [e |-> "close", c |-> r.cat])

\* The outcomes of an awaited client read: registers, an error response, or
\* an exception; the request of a client that is not connected (any more)
\* fails with an exception.
ReadOutcomes(conn) == IF conn THEN {"ok", "error", "exc"} ELSE {"exc"}

\* The outcomes of awaiting something that returns or raises.
AwaitOutcomes == {"ok", "exc"}

\* An update that fetches the time blocks before the counters.
USNextCountersLast(cat) ==
    CASE cat = "measurements" -> "us_327"
      [] cat = "time_blocks" -> "us_325"
      [] OTHER -> "us_330"

USNextSkipsCounters(cat) ==
    CASE cat = "measurements" -> "us_327"
      [] cat = "counters" -> "us_327"
      [] OTHER -> "us_330"

\* Where update_status continues after a category's value is assigned.
USNext(cat) ==
    CASE cat = "measurements" -> "us_325"
      [] cat = "counters" -> "us_327"
      [] OTHER -> "us_330"

\* A recipe that marks what it returns with the call that fetched it.
ReturnValueStamped(f, t, r, cat, v) ==
    IF AssignsSnapshot(r.op)
    THEN /\ snapshot' = [snapshot EXCEPT ![cat] = v \o <<r.call>>]
         /\ wrote' = [wrote EXCEPT ![cat] = r.call]
         /\ tasks' = Put(f, t, Event([r EXCEPT !.pc = USNext(cat)],
                                     [e |-> "write", c |-> cat]))
         /\ cur' = t
    ELSE /\ tasks' = Put(f, t, [r EXCEPT !.pc = "returned", !.buf = v])
         /\ cur' = t
         /\ UNCHANGED <<snapshot, wrote>>

\* A decode recipe returns value v to its caller: update_status assigns it to
\* the snapshot field (lines 324-327), a direct caller gets it back.
ReturnValue(f, t, r, cat, v) ==
    IF AssignsSnapshot(r.op)
    THEN /\ snapshot' = [snapshot EXCEPT ![cat] = v]
         /\ wrote' = [wrote EXCEPT ![cat] = r.call]
         /\ tasks' = Put(f, t, Event([r EXCEPT !.pc = USNext(cat)],
                                     [e |-> "write", c |-> cat]))
         /\ cur' = t
    ELSE /\ tasks' = Put(f, t, [r EXCEPT !.pc = "returned", !.buf = v])
         /\ cur' = t
         /\ UNCHANGED <<snapshot, wrote>>

----------------------------------------------------------------------------
\* A caller starts an operation; it runs at once, up to its first await.  The
\* meter's registers may have changed since the call before.
Call(t, o, m, fresh) ==
    /\ cur = NoTask
    /\ tasks[t].pc = "idle"
    /\ \A u \in Tasks : u < t => tasks[u].pc # "idle"
    /\ ncalls < MaxCalls
    /\ o \in ReadOps => adapter = "Modbus"
    /\ m # "ACTUAL" => o = "get_measurements"
    /\ ncalls' = ncalls + 1
    /\ regs' = IF fresh THEN regs + 1 ELSE regs
    /\ tasks' = Put(tasks, t,
          [IdleTask EXCEPT !.op = o, !.pc = Entry(o), !.mt = m,
                           !.cat = IF Entry(o) = "rd_131" THEN "raw" ELSE "none",
                           !.idx = IF Entry(o) = "rd_131" THEN 1 ELSE 0,
                           !.call = ncalls + 1, !.busy = update_lock,
                           !.waitfor = IF update_lock THEN
                               (CHOOSE c \in 0..MaxCalls :
                                  \E u \in Tasks : tasks[u].holds /\ tasks[u].call = c)
                                       ELSE 0])
    /\ cur' = t
    /\ UNCHANGED <<device, calc, update_lock, connected, snapshot,
                   update_timestamp, now, wrote, last_update>>

\* update_status, lines 310-317: wait if an update is running, else take the
\* lock.  Lock.acquire on a free lock returns without suspending.
USCheck(t) ==
    /\ cur = t
    /\ tasks[t].pc = "us_310"
    /\ IF Locked(update_lock)
       THEN /\ tasks' = Put(tasks, t, [tasks[t] EXCEPT !.pc = "us_313", !.waited = TRUE])
            /\ cur' = NoTask
            /\ UNCHANGED update_lock
       ELSE /\ tasks' = Put(tasks, t, [tasks[t] EXCEPT !.pc = "us_321", !.holds = TRUE,
                                                 !.pre = snapshot])
            /\ update_lock' = TRUE
            /\ cur' = t
    /\ UNCHANGED <<fixed, connected, snapshot, update_timestamp, now,
                   ncalls, wrote, last_update>>

\* update_status, lines 312-314: asyncio.sleep(0.1) is over; sleep again while
\* the lock is held, else return.
USPoll(t) ==
    /\ cur = NoTask
    /\ tasks[t].pc = "us_313"
    /\ IF StillLocked(update_lock)
       THEN UNCHANGED <<tasks, cur>>
       ELSE /\ tasks' = Put(tasks, t, [tasks[t] EXCEPT !.pc = AfterWait])
            /\ cur' = t
    /\ UNCHANGED <<fixed, update_lock, connected, snapshot, update_timestamp,
                   now, ncalls, wrote, last_update>>

\* update_status, lines 321-322.
USOpen(t) ==
    /\ cur = t
    /\ tasks[t].pc = "us_321"
    /\ IF IsModbus(adapter)
       THEN /\ tasks' = Put(tasks, t, OpenConnection(tasks[t], "us"))
            /\ cur' = NoTask
       ELSE /\ tasks' = Put(tasks, t, [tasks[t] EXCEPT !.pc = "us_324"])
            /\ cur' = t
    /\ UNCHANGED <<fixed, update_lock, connected, snapshot, update_timestamp,
                   now, ncalls, wrote, last_update>>

\* update_status, lines 324, 325 and 327: call the next decode recipe.
USFetch(t) ==
    /\ cur = t
    /\ tasks[t].pc \in {"us_324", "us_325", "us_327"}
    /\ tasks' = Put(tasks, t,
          [tasks[t] EXCEPT !.pc = CASE tasks[t].pc = "us_324" -> "gm_83"
                                    [] tasks[t].pc = "us_325" -> "gc_226"
                                    [] OTHER -> "tb_407"])
    /\ UNCHANGED <<fixed, update_lock, connected, snapshot, update_timestamp,
                   now, cur, ncalls, wrote, last_update>>

\* Modbus.open_connection, lines 66-70: connect() is over; raise if the client
\* is not connected, else go back to the caller.
OpenConnectionDone(t, ok) ==
    /\ cur = NoTask
    /\ tasks[t].pc = "oc_66"
    /\ connected' = ok
    /\ LET r == tasks[t]
           f == IF ok THEN tasks ELSE Dropped(t) IN
       IF ~ok
       THEN Propagate(f, t, r, "DeviceConnectionError")
       ELSE /\ IF r.octx = "rd"
               THEN /\ tasks' = Put(f, t, Event([r EXCEPT !.pc = "rd_135"],
                                                [e |-> "read", c |-> r.cat]))
                    /\ cur' = NoTask
               ELSE /\ tasks' = Put(f, t,
                          [r EXCEPT !.pc = IF r.octx = "us" THEN "us_324" ELSE "rd_131",
                                    !.idx = IF r.octx = "us" THEN 0 ELSE 1])
                    /\ cur' = t
            /\ UNCHANGED <<update_lock, last_update>>
    /\ UNCHANGED <<fixed, snapshot, update_timestamp, now, ncalls, wrote>>

\* A REST adapter call is issued (RestAPI.get_measurements, get_counters,
\* get_tb_measurements).
RestCall(r, cat) ==
    Event([r EXCEPT !.pc = "rest_await", !.cat = cat], [e |-> "rest", c |-> cat])

\* A decode recipe of a Modbus device starts its first register read.
FirstRead(r, cat) ==
    [r EXCEPT !.pc = "rd_131", !.cat = cat, !.idx = 1, !.bad = FALSE, !.buf = <<>>]

\* A get_measurements that takes every measurement type.
NotSupportedNever(mt, flag) == FALSE

\* Lines 83-86: the measurement type is not the actual one and
\* supports_interval_measurements is False.
NotSupported(mt, flag) == mt # "ACTUAL" /\ flag = FALSE

\* get_measurements, lines 83-115.
GetMeasurements(t) ==
    /\ cur = t
    /\ tasks[t].pc = "gm_83"
    /\ IF NotSupported(tasks[t].mt, supports_interval_measurements)
       THEN Propagate(tasks, t, tasks[t], "MeasurementTypeNotSupported")
       ELSE /\ IF adapter = "RestAPI"
               THEN /\ tasks' = Put(tasks, t, RestCall(tasks[t], "measurements"))
                    /\ cur' = NoTask
               ELSE /\ tasks' = Put(tasks, t, FirstRead(tasks[t], "measurements"))
                    /\ cur' = t
            /\ UNCHANGED <<update_lock, last_update>>
    /\ UNCHANGED <<fixed, connected, snapshot, update_timestamp,
                   now, ncalls, wrote>>

\* Lines 231-233 and 418-420: handle_connection = not self.adapter.connected,
\* and the connection is opened if it was closed.
DeviceOpen(t, cat) ==
    LET r == [FirstRead(tasks[t], cat) EXCEPT !.hd = HandleConnection(connected)] IN
    IF r.hd
    THEN /\ tasks' = Put(tasks, t, OpenConnection(r, "dev"))
         /\ cur' = NoTask
    ELSE /\ tasks' = Put(tasks, t, r)
         /\ cur' = t

\* get_counters, lines 226-236.
GetCounters(t) ==
    /\ cur = t
    /\ tasks[t].pc = "gc_226"
    /\ IF adapter = "RestAPI"
       THEN /\ tasks' = Put(tasks, t, RestCall(tasks[t], "counters"))
            /\ cur' = NoTask
       ELSE DeviceOpen(t, "counters")
    /\ UNCHANGED <<fixed, update_lock, connected, snapshot, update_timestamp,
                   now, ncalls, wrote, last_update>>

FetchesTimeBlocksAlways == TRUE

\* Whether get_time_blocks_measurements fetches anything (lines 409, 415).
FetchesTimeBlocks ==
    IF adapter = "RestAPI" THEN supports_iMC_functions ELSE supports_time_blocks

\* get_time_blocks_measurements, lines 407-423.
GetTimeBlocks(t) ==
    /\ cur = t
    /\ tasks[t].pc = "tb_407"
    /\ IF ~FetchesTimeBlocks
       THEN ReturnValue(tasks, t, [tasks[t] EXCEPT !.cat = "time_blocks"],
                        "time_blocks", None)
       ELSE /\ IF adapter = "RestAPI"
               THEN /\ tasks' = Put(tasks, t, RestCall(tasks[t], "time_blocks"))
                    /\ cur' = NoTask
               ELSE DeviceOpen(t, "time_blocks")
            /\ UNCHANGED <<snapshot, wrote>>
    /\ UNCHANGED <<fixed, update_lock, connected, update_timestamp, now,
                   ncalls, last_update>>

\* read_holding_registers / read_input_registers, lines 131-137 and 157-163:
\* handle_connection = not self.connected; open if closed; issue the read.
ReadEnter(t) ==
    /\ cur = t
    /\ tasks[t].pc = "rd_131"
    /\ LET r == [tasks[t] EXCEPT !.hr = HandleConnection(connected),
                                 !.found_open = connected] IN
       tasks' = Put(tasks, t,
          IF r.hr THEN OpenConnection(r, "rd")
          ELSE Event([r EXCEPT !.pc = "rd_135"], [e |-> "read", c |-> r.cat]))
    /\ cur' = NoTask
    /\ UNCHANGED <<fixed, update_lock, connected, snapshot, update_timestamp,
                   now, ncalls, wrote, last_update>>

\* read_holding_registers / read_input_registers, lines 134-144 and 160-170:
\* the client's read is over.  An exception is re-raised at once as
\* DeviceConnectionError (lines 138-139, 164-165), past the close at 141-142.
ReadDone(t, out) ==
    /\ cur = NoTask
    /\ tasks[t].pc = "rd_135"
    /\ out \in ReadOutcomes(connected)
    /\ LET r == tasks[t] IN
       IF out = "exc"
       THEN /\ UNCHANGED connected
            /\ Propagate(tasks, t, r, "DeviceConnectionError")
       ELSE /\ LET r1 == [r EXCEPT !.pc = "rd_ret",
                                   !.bad = @ \/ out = "error",
                                   !.buf = IF out = "ok" THEN <<regs>> ELSE @]
               IN IF r.hr
                  THEN /\ connected' = FALSE
                       /\ tasks' = Put(Dropped(t), t, CloseConnection(r1))
                  ELSE /\ UNCHANGED connected
                       /\ tasks' = Put(tasks, t, r1)
            /\ cur' = t
            /\ UNCHANGED <<update_lock, last_update>>
    /\ UNCHANGED <<fixed, snapshot, update_timestamp, now, ncalls, wrote>>

\* The response is back with the caller of read_*_registers: a standalone
\* read returns it; a decode recipe issues its next read, or is past its reads.
AfterRead(t) ==
    /\ cur = t
    /\ tasks[t].pc = "rd_ret"
    /\ tasks[t].cat \notin InitStages
    /\ LET r == tasks[t] IN
       IF r.cat = "raw"
       THEN /\ tasks' = Put(tasks, t, [r EXCEPT !.pc = "returned"])
            /\ cur' = t
       ELSE /\ tasks' = Put(tasks, t,
                  IF r.idx < Len(ReadsOf(r.cat, r.mt))
                  THEN [r EXCEPT !.pc = "rd_131", !.idx = @ + 1]
                  ELSE [r EXCEPT !.pc = IF r.cat = "measurements"
                                        THEN "decode" ELSE "dev_253"])
            /\ cur' = t
    /\ UNCHANGED <<fixed, update_lock, connected, snapshot, update_timestamp,
                   now, ncalls, wrote, last_update>>

\* get_counters lines 253-254, get_time_blocks_measurements lines 438-439:
\* if handle_connection: await self.adapter.close_connection().  The
\* connection is closed by the call; awaiting what it returned ends or raises.
DeviceClose(t, out) ==
    /\ cur = t
    /\ tasks[t].pc = "dev_253"
    /\ out \in AwaitOutcomes
    /\ LET r == tasks[t] IN
       IF r.hd
       THEN /\ connected' = FALSE
            /\ IF out = "exc"
               THEN Propagate(Dropped(t), t, CloseConnection(r), "Exception")
               ELSE /\ tasks' = Put(Dropped(t), t,
                                    CloseConnection([r EXCEPT !.pc = "decode"]))
                    /\ UNCHANGED <<update_lock, last_update, cur>>
       ELSE /\ out = "ok"
            /\ tasks' = Put(tasks, t, [r EXCEPT !.pc = "decode"])
            /\ UNCHANGED <<connected, update_lock, last_update, cur>>
    /\ UNCHANGED <<fixed, snapshot, update_timestamp, now, ncalls, wrote>>

\* The mapper accessors of a decode recipe (lines 129-217, 256-299, 441-659):
\* an error response holds no registers to decode.
DecodeFails(r) == r.bad

\* What the recipe builds from the registers read: get_measurements adds the
\* interval statistics, decoded from the registers of the last read, for a
\* measurement type other than the actual one (lines 120-129, 217), else
\* interval_stats is None and the value is the measurements alone.
Built(r) ==
    IF r.cat = "measurements" /\ r.mt # "ACTUAL"
    THEN r.buf \o r.buf
    ELSE r.buf

\* The decode recipe builds its value and returns it.
Decode(t) ==
    /\ cur = t
    /\ tasks[t].pc = "decode"
    /\ LET r == tasks[t] IN
       IF DecodeFails(r)
       THEN /\ Propagate(tasks, t, r, "Exception")
            /\ UNCHANGED <<snapshot, wrote>>
       ELSE /\ ReturnValue(tasks, t, r, r.cat, Built(r))
            /\ UNCHANGED <<update_lock, last_update>>
    /\ UNCHANGED <<fixed, connected, update_timestamp, now, ncalls>>

\* The REST adapter's call is over.
RestDone(t, out) ==
    /\ cur = NoTask
    /\ tasks[t].pc = "rest_await"
    /\ tasks[t].cat \notin InitStages
    /\ out \in AwaitOutcomes
    /\ LET r == tasks[t] IN
       IF out = "exc"
       THEN /\ Propagate(tasks, t, r, "Exception")
            /\ UNCHANGED <<snapshot, wrote>>
       ELSE /\ ReturnValue(tasks, t, r, r.cat, <<regs>>)
            /\ UNCHANGED <<update_lock, last_update>>
    /\ UNCHANGED <<fixed, connected, update_timestamp, now, ncalls>>

\* update_status, lines 330-331: await self.adapter.close_connection().
USClose(t, out) ==
    /\ cur = t
    /\ tasks[t].pc = "us_330"
    /\ out \in AwaitOutcomes
    /\ LET r == [tasks[t] EXCEPT !.cat = "close"] IN
       IF IsModbus(adapter)
       THEN /\ connected' = FALSE
            /\ IF out = "exc"
               THEN Propagate(tasks, t, CloseConnection(r), "Exception")
               ELSE /\ tasks' = Put(tasks, t, CloseConnection([r EXCEPT !.pc = "us_333"]))
                    /\ UNCHANGED <<update_lock, last_update, cur>>
       ELSE /\ out = "ok"
            /\ tasks' = Put(tasks, t, [r EXCEPT !.pc = "us_333"])
            /\ UNCHANGED <<connected, update_lock, last_update, cur>>
    /\ UNCHANGED <<fixed, snapshot, update_timestamp, now, ncalls, wrote>>

\* time.time() at line 333: the clock reads later at each stamp; readings
\* past the MaxCalls-th stamp are not told apart.
Tick(n) == IF n < MaxCalls THEN n + 1 ELSE n

\* update_status, line 333, and the end of the `async with` block.
USStamp(t) ==
    /\ cur = t
    /\ tasks[t].pc = "us_333"
    /\ now' = Tick(now)
    /\ update_timestamp' = now'
    /\ update_lock' = LockAfterExit(update_lock, tasks[t])
    /\ last_update' = [call |-> tasks[t].call, ok |-> TRUE]
    /\ tasks' = Put(tasks, t,
          Event([tasks[t] EXCEPT !.pc = "returned", !.holds = FALSE],
                [e |-> "stamp", c |-> "none"]))
    /\ cur' = t
    /\ UNCHANGED <<fixed, connected, snapshot, ncalls, wrote>>

\* The call's result or exception reaches its caller, which runs on without
\* suspending; the caller is then free to call again.
Finish(t) ==
    /\ cur = t
    /\ tasks[t].pc \in {"returned", "raised"}
    /\ tasks' = Put(tasks, t, IdleTask)
    /\ cur' = NoTask
    /\ UNCHANGED <<fixed, update_lock, connected, snapshot, update_timestamp,
                   now, ncalls, wrote, last_update>>

\* Every step of a call after its start.
Steps ==
    \/ \E t \in Tasks : USCheck(t)
    \/ \E t \in Tasks : USPoll(t)
    \/ \E t \in Tasks : USOpen(t)
    \/ \E t \in Tasks : USFetch(t)
    \/ \E t \in Tasks, ok \in BOOLEAN : OpenConnectionDone(t, ok)
    \/ \E t \in Tasks : GetMeasurements(t)
    \/ \E t \in Tasks : GetCounters(t)
    \/ \E t \in Tasks : GetTimeBlocks(t)
    \/ \E t \in Tasks : ReadEnter(t)
    \/ \E t \in Tasks, out \in {"ok", "error", "exc"} : ReadDone(t, out)
    \/ \E t \in Tasks, out \in AwaitOutcomes : DeviceClose(t, out)
    \/ \E t \in Tasks : AfterRead(t)
    \/ \E t \in Tasks : Decode(t)
    \/ \E t \in Tasks, out \in AwaitOutcomes : RestDone(t, out)
    \/ \E t \in Tasks, out \in AwaitOutcomes : USClose(t, out)
    \/ \E t \in Tasks : USStamp(t)
    \/ \E t \in Tasks : Finish(t)

\* Callers of update_status next to callers of the adapter's register reads.
Next ==
    \/ \E t \in Tasks, o \in {"update_status"} \cup ReadOps, fresh \in BOOLEAN :
          Call(t, o, "ACTUAL", fresh)
    \/ Steps

Spec == Init /\ [][Next]_vars

\* Callers of update_status next to direct callers of the decode recipes, one
\* direct caller at a time, over registers that do not change.
NextDirect ==
    \/ \E t \in Tasks, o \in {"update_status"} \cup DirectOps,
          m \in MeasurementTypes, fresh \in {FALSE} :
          /\ o \in DirectOps => \A u \in Tasks : tasks[u].op \notin DirectOps
          /\ Call(t, o, m, fresh)
    \/ Steps

SpecDirect == Init /\ [][NextDirect]_vars

\* The same callers on a device that may lack interval measurements.
SpecInterval == InitInterval /\ [][NextDirect]_vars

\* A caller starts update_status after MaxCalls calls have been counted: the
\* callers of a device may go on calling for ever.  Such calls all carry the
\* number MaxCalls.
CallAgain(t) ==
    /\ cur = NoTask
    /\ tasks[t].pc = "idle"
    /\ \A u \in Tasks : u < t => tasks[u].pc # "idle"
    /\ ncalls = MaxCalls
    /\ tasks' = Put(tasks, t,
          [IdleTask EXCEPT !.op = "update_status", !.pc = Entry("update_status"),
                           !.call = MaxCalls, !.busy = update_lock,
                           !.waitfor = IF update_lock THEN MaxCalls ELSE 0])
    /\ cur' = t
    /\ UNCHANGED <<fixed, update_lock, connected, snapshot, update_timestamp,
                   now, ncalls, wrote, last_update>>

\* The steps of task t's call that the event loop runs: the task goes on
\* when it is ready, and a transport operation it awaits returns or raises.
Run(t) ==
    \/ USCheck(t) \/ USOpen(t) \/ USFetch(t)
    \/ \E ok \in BOOLEAN : OpenConnectionDone(t, ok)
    \/ GetMeasurements(t) \/ GetCounters(t) \/ GetTimeBlocks(t)
    \/ ReadEnter(t)
    \/ \E out \in {"ok", "error", "exc"} : ReadDone(t, out)
    \/ \E out \in AwaitOutcomes : DeviceClose(t, out)
    \/ AfterRead(t) \/ Decode(t)
    \/ \E out \in AwaitOutcomes : RestDone(t, out)
    \/ \E out \in AwaitOutcomes : USClose(t, out)
    \/ USStamp(t) \/ Finish(t)

\* Callers of update_status that never stop calling.
NextLive ==
    \/ \E t \in Tasks : Call(t, "update_status", "ACTUAL", FALSE)
    \/ \E t \in Tasks : CallAgain(t)
    \/ Steps

\* The event loop runs every ready task and every awaited transport operation
\* ends (strong fairness of Run); a waiting caller's poll at lines 312-313
\* finds the lock free if it stays free (weak fairness of USPoll): the sleep
\* of 0.1 s ends at a time that the lock's holders do not choose.  Callers
\* are free to call or not.
SpecLive ==
    /\ Init /\ [][NextLive]_vars
    /\ \A t \in Tasks : SF_vars(Run(t)) /\ WF_vars(USPoll(t))

----------------------------------------------------------------------------
\* init (lines 55-72).

\* init, line 61: await self.get_basic_info().  On a Modbus adapter
\* Modbus.get_basic_info opens the connection first (line 92); on a REST
\* adapter the identity is one REST call.
InitBasicInfo(t) ==
    /\ cur = t
    /\ tasks[t].pc = "in_61"
    /\ LET r == [tasks[t] EXCEPT !.init = TRUE, !.cat = "basic_info"] IN
       tasks' = Put(tasks, t,
                    IF adapter = "RestAPI" THEN RestCall(r, "basic_info")
                    ELSE OpenConnection(r, "bi"))
    /\ cur' = NoTask
    /\ UNCHANGED <<fixed, update_lock, connected, snapshot, update_timestamp,
                   now, ncalls, wrote, last_update>>

\* A register read of one of init's steps is back.  Modbus.get_basic_info
\* raises InvalidResponseCode on an error response (lines 94-97, 105-108),
\* leaving the connection as it is; the probes hand the response to a mapper.
InitAfterRead(t) ==
    /\ cur = t
    /\ tasks[t].pc = "rd_ret"
    /\ tasks[t].cat \in InitStages
    /\ LET r == tasks[t] IN
       IF r.cat = "basic_info" /\ r.bad
       THEN Propagate(tasks, t, r, "InvalidResponseCode")
       ELSE /\ tasks' = Put(tasks, t,
                  IF r.idx < Len(ReadsOf(r.cat, r.mt))
                  THEN [r EXCEPT !.pc = "rd_131", !.idx = @ + 1]
                  ELSE [r EXCEPT !.pc = "in_end"])
            /\ UNCHANGED <<update_lock, last_update, cur>>
    /\ UNCHANGED <<fixed, connected, snapshot, update_timestamp, now, ncalls,
                   wrote>>

\* The REST call of one of init's steps is over.
InitRestDone(t, out) ==
    /\ cur = NoTask
    /\ tasks[t].pc = "rest_await"
    /\ tasks[t].cat \in InitStages
    /\ out \in AwaitOutcomes
    /\ LET r == tasks[t] IN
       IF out = "exc"
       THEN Propagate(tasks, t, r, "Exception")
       ELSE /\ tasks' = Put(tasks, t, [r EXCEPT !.pc = "in_end"])
            /\ cur' = t
            /\ UNCHANGED <<update_lock, last_update>>
    /\ UNCHANGED <<fixed, connected, snapshot, update_timestamp, now, ncalls,
                   wrote>>

InitOrderUpdateFirst(a) == <<>>

\* The steps of init before update_status, in the order of lines 61-70.
InitOrder(a) ==
    IF a = "Modbus" THEN <<"basic_info", "iMC", "nominal_power", "tb_support">>
    ELSE <<"basic_info", "tb_support">>

\* init, line 71: await self.update_status().
EnterUpdate(r) ==
    [r EXCEPT !.op = "update_status", !.pc = Entry("update_status"),
              !.cat = "none", !.idx = 0, !.nupd = @ + 1,
              !.busy = update_lock,
              !.waitfor = IF update_lock THEN
                              (CHOOSE c \in 0..MaxCalls :
                                 \E u \in Tasks : tasks[u].holds /\ tasks[u].call = c)
                          ELSE 0]

\* The step of init after the steps in r.done: the next one of InitOrder,
\* and update_status after the last.
InitGoOn(r) ==
    IF Len(r.done) < Len(InitOrder(adapter))
    THEN IF adapter = "RestAPI"
         THEN RestCall(r, InitOrder(adapter)[Len(r.done) + 1])
         ELSE FirstRead(r, InitOrder(adapter)[Len(r.done) + 1])
    ELSE EnterUpdate(r)

\* One of init's steps has its data.  get_basic_info closes the connection
\* (Modbus.py line 110); a probe decodes and init stores its result: line 64
\* supports_iMC_functions, line 66 nominal_power, line 68 supports_time_blocks,
\* line 70 supports_iMC_functions on a REST adapter.  flag is the probe's result.
InitStageEnd(t, flag) ==
    /\ cur = t
    /\ tasks[t].pc = "in_end"
    /\ LET r == tasks[t]
           r1 == [r EXCEPT !.done = Append(@, r.cat)]
       IN
       IF r.cat # "basic_info" /\ DecodeFails(r)
       THEN /\ Propagate(tasks, t, r, "Exception")
            /\ UNCHANGED <<device, connected>>
       ELSE /\ IF r.cat = "basic_info" /\ adapter = "Modbus"
               THEN /\ connected' = FALSE
                    /\ tasks' = Put(Dropped(t), t, InitGoOn(CloseConnection(r1)))
               ELSE /\ UNCHANGED connected
                    /\ tasks' = Put(tasks, t, InitGoOn(r1))
            /\ supports_iMC_functions' =
                  IF r.cat = "iMC" \/ (r.cat = "tb_support" /\ adapter = "RestAPI")
                  THEN flag ELSE supports_iMC_functions
            /\ supports_time_blocks' =
                  IF r.cat = "tb_support" /\ adapter = "Modbus"
                  THEN flag ELSE supports_time_blocks
            /\ cur' = IF adapter = "RestAPI" /\ Len(r1.done) < Len(InitOrder(adapter))
                      THEN NoTask ELSE t
            /\ UNCHANGED <<adapter, supports_interval_measurements,
                           update_lock, last_update>>
    /\ UNCHANGED <<regs, calc, snapshot, update_timestamp, now, ncalls, wrote>>

\* Callers of init next to callers of update_status.
NextInit ==
    \/ \E t \in Tasks, o \in {"init", "update_status"} :
          Call(t, o, "ACTUAL", FALSE)
    \/ Steps
    \/ \E t \in Tasks : InitBasicInfo(t)
    \/ \E t \in Tasks : InitAfterRead(t)
    \/ \E t \in Tasks, out \in AwaitOutcomes : InitRestDone(t, out)
    \/ \E t \in Tasks, flag \in BOOLEAN : InitStageEnd(t, flag)

SpecInit == Init /\ [][NextInit]_vars

----------------------------------------------------------------------------
\* The decode recipes as functions of the registers they are given.

\* Everything but the decode under study.
machine ==
    <<adapter, supports_time_blocks, supports_iMC_functions,
      supports_interval_measurements, update_lock,
      connected, snapshot, update_timestamp, regs, now, tasks, cur, ncalls,
      wrote, last_update>>

\* A Modbus device on which no call is running.
AtRest ==
    /\ adapter = "Modbus"
    /\ supports_time_blocks = TRUE
    /\ supports_iMC_functions = FALSE
    /\ supports_interval_measurements = TRUE
    /\ update_lock = FALSE
    /\ connected = FALSE
    /\ snapshot = [c \in Categories |-> None]
    /\ update_timestamp = 0
    /\ regs = 1
    /\ now = 0
    /\ tasks = [t \in Tasks |-> IdleTask]
    /\ cur = NoTask
    /\ ncalls = 0
    /\ wrote = [c \in Categories |-> 0]
    /\ last_update = [call |-> 0, ok |-> FALSE]

Models == {"IE38", "IE35", "IE14"}

\* A table that gives every model the parameters of the IE38.
DeviceParametersAllAlike(m) ==
    [phases |-> 3, resettable_counters |-> 16,
     non_resettable_counters |-> 4, time_block_count |-> 5]

\* Impact.DEVICE_PARAMETERS; a model without time blocks has no
\* time_block_count entry, written 0 here.
DEVICE_PARAMETERS(m) ==
    CASE m = "IE38" -> [phases |-> 3, resettable_counters |-> 16,
                        non_resettable_counters |-> 4, time_block_count |-> 5]
      [] m = "IE35" -> [phases |-> 3, resettable_counters |-> 16,
                        non_resettable_counters |-> 4, time_block_count |-> 0]
      [] OTHER -> [phases |-> 1, resettable_counters |-> 8,
                   non_resettable_counters |-> 4, time_block_count |-> 0]

\* ModbusMapper(registers, start): a window of registers and the address of
\* its first one.
ModbusMapper(registers, start) == [start |-> start, registers |-> registers]

\* ModbusMapper.get_uint16(address): the register at that address.
GetUint16(w, address) == w.registers[address - w.start + 1]

\* The largest value tried for holding register 151.
MaxReg151 == 3

CounterDirections == {"import", "export"}

CounterUnits == {"Wh", "varh"}

Opposite(d) == IF d = "import" THEN "export" ELSE "import"

\* A settings window of n counter slots, four registers each: the slot's
\* units, its direction, and two registers the recipe does not read.  A
\* register is written as the setting it encodes.
SettingsWindow(n, units, dirs) ==
    [i \in 1..(4 * n) |->
        CASE (i - 1) % 4 = 0 -> units[(i - 1) \div 4]
          [] (i - 1) % 4 = 1 -> dirs[(i - 1) \div 4]
          [] OTHER -> "other"]

\* The inputs tried: every model, every value of register 151, and settings
\* in which one slot sp (0-3 non-resettable, 4-19 resettable) is set to
\* direction d1 and units u1 and every other slot to d2 and u2.
CounterInputs ==
    { [fn |-> "get_counters", model |-> m, direction_settings |-> <<x>>,
       conf_nr |-> [k \in 0..3 |-> IF sp = k THEN d1 ELSE d2],
       conf_rs |-> [k \in 0..15 |-> IF sp = k + 4 THEN d1 ELSE d2],
       units_nr |-> [k \in 0..3 |-> IF sp = k THEN u1 ELSE u2],
       units_rs |-> [k \in 0..15 |-> IF sp = k + 4 THEN u1 ELSE u2]] :
      m \in Models, x \in 0..MaxReg151, sp \in 0..19,
      d1 \in CounterDirections, d2 \in CounterDirections,
      u1 \in CounterUnits, u2 \in CounterUnits }

ReverseConnectionBit0(direction_settings) == direction_settings[1] % 2 = 1

\* get_counters, lines 258-261: reverse_connection is bit 1 (mask 2) of the
\* first register read at 151.
ReverseConnection(direction_settings) ==
    (direction_settings[1] \div 2) % 2 = 1

\* helper.get_counter_units: the units a settings register encodes.
GetCounterUnits(x) == x

\* helper.get_counter_direction: the configured direction, inverted if the
\* wiring is reversed.
GetCounterDirection(x, reverse_connection) ==
    IF reverse_connection THEN Opposite(x) ELSE x

\* helper.get_counter_type: derived from direction and units.
GetCounterType(direction, units) == <<direction, units>>

\* get_counters, the body of the loops at lines 263-297, for slot `counter`
\* of the window w whose units register of slot 0 is at units_at and whose
\* direction register of slot 0 is at direction_at.
CounterOf(w, units_at, direction_at, counter, reverse_connection) ==
    LET units == GetCounterUnits(GetUint16(w, units_at + 4 * counter))
        direction == GetCounterDirection(GetUint16(w, direction_at + 4 * counter),
                                         reverse_connection)
    IN [units |-> units, direction |-> direction,
        counter_type |-> GetCounterType(direction, units)]

\* get_counters, lines 239-299, past its reads.
DecodeCounters(a) ==
    LET non_resettable_settings_mapper ==
            ModbusMapper(SettingsWindow(4, a.units_nr, a.conf_nr), 421)
        resettable_settings_mapper ==
            ModbusMapper(SettingsWindow(16, a.units_rs, a.conf_rs), 437)
        reverse_connection == ReverseConnection(a.direction_settings)
        p == DEVICE_PARAMETERS(a.model)
    IN [non_resettable |->
            [c \in 1..p.non_resettable_counters |->
                CounterOf(non_resettable_settings_mapper, 421, 422, c - 1,
                          reverse_connection)],
        resettable |->
            [c \in 1..p.resettable_counters |->
                CounterOf(resettable_settings_mapper, 437, 438, c - 1,
                          reverse_connection)]]

InitCounters ==
    /\ AtRest
    /\ arg \in CounterInputs
    /\ res = <<>>
    /\ step = "in"

GetCountersDecode ==
    /\ step = "in"
    /\ arg.fn = "get_counters"
    /\ res' = DecodeCounters(arg)
    /\ step' = "out"
    /\ UNCHANGED <<arg, machine>>

NextCounters == GetCountersDecode

SpecCounters == InitCounters /\ [][NextCounters]_vars

\* The largest register value tried in the time-block windows.
MaxRegister == 2

\* ModbusMapper.get_uint32(address): the two registers at address and
\* address + 1, the high one first.
GetUint32(w, address) ==
    GetUint16(w, address) * 65536 + GetUint16(w, address + 1)

\* ModbusMapper.get_int16(address).
GetInt16(w, address) ==
    IF GetUint16(w, address) >= 32768
    THEN GetUint16(w, address) - 65536 ELSE GetUint16(w, address)

\* ModbusMapper.get_t5 and get_timestamp(address): the two registers the
\* value is decoded from.
GetT5(w, address) == <<GetUint16(w, address), GetUint16(w, address + 1)>>

GetTimestamp(w, address) == <<GetUint16(w, address), GetUint16(w, address + 1)>>

\* value * (10**exponent), kept as the pair.
Scaled(value, exponent) == [value |-> value, exponent |-> exponent]

\* The inputs tried: the 238 input registers at 6761 hold v1 in the 42
\* registers of block sp and v2 elsewhere, the limits at 990 hold l1 for
\* block sp and l2 for the others.
TimeBlockInputs ==
    { [fn |-> "get_time_blocks_measurements", model |-> "IE38",
       sp |-> sp, v1 |-> v1, v2 |-> v2, l1 |-> l1, l2 |-> l2,
       data |-> [i \in 1..238 |->
                   IF 6760 + i >= 6786 /\ (6760 + i - 6786) \div 42 = sp
                   THEN v1 ELSE v2],
       limits |-> [i \in 1..5 |-> IF i - 1 = sp THEN l1 ELSE l2],
       active_power_measurements |-> [i \in 1..18 |-> v2],
       capture_timestamp |-> [i \in 1..2 |-> v2],
       pred_15min_active_limit |-> [i \in 1..2 |-> v2]] :
      sp \in 0..4, v1 \in 0..MaxRegister, v2 \in 0..MaxRegister,
      l1 \in 0..MaxRegister, l2 \in 0..MaxRegister }

\* A stride that leaves out two registers of each block.
BlockStride40 == 42 - 2

\* The distance between the registers of one block and of the next
\* (42 * block, lines 449-552).
BlockStride == 42

\* get_time_blocks_measurements, lines 449-505: Consumed_Energy of a block.
ConsumedEnergyOf(mapper, capture_timestamp_mapper, block, exponent) ==
    [total |-> Scaled(GetUint32(mapper, 6786 + BlockStride * block), exponent),
     timestamp_total |-> GetTimestamp(capture_timestamp_mapper, 4901),
     last_month |-> Scaled(GetUint32(mapper, 6788 + BlockStride * block), exponent),
     timestamp_last_month |-> GetTimestamp(mapper, 6766),
     two_months_ago |-> Scaled(GetUint32(mapper, 6790 + BlockStride * block), exponent),
     timestamp_two_months_ago |-> GetTimestamp(mapper, 6768),
     last_year |-> Scaled(GetUint32(mapper, 6792 + BlockStride * block), exponent),
     timestamp_last_year |-> GetTimestamp(mapper, 6770),
     two_years_ago |-> Scaled(GetUint32(mapper, 6794 + BlockStride * block), exponent),
     timestamp_two_years_ago |-> GetTimestamp(mapper, 6772),
     this_month |-> Scaled(GetUint32(mapper, 6796 + BlockStride * block), exponent),
     previous_month |-> Scaled(GetUint32(mapper, 6798 + BlockStride * block), exponent),
     this_year |-> Scaled(GetUint32(mapper, 6800 + BlockStride * block), exponent),
     previous_year |-> Scaled(GetUint32(mapper, 6802 + BlockStride * block), exponent)]

\* Lines 509-524: Excess_Power of a block; the limit is kept as the register
\* it is computed from.
ExcessPowerOf(mapper, limits_mapper, block) ==
    [excess_power_limit |-> GetUint16(limits_mapper, 990 + 1 * block),
     excess_power_this_month |-> GetT5(mapper, 6804 + BlockStride * block),
     excess_power_previous_month |-> GetT5(mapper, 6806 + BlockStride * block)]

\* Lines 525-572: Max_15min_Power of a block.
Max15minPowerOf(mapper, block) ==
    [max_15min_power_since_reset |-> GetT5(mapper, 6808 + BlockStride * block),
     timestamp_since_reset |-> GetTimestamp(mapper, 6810 + BlockStride * block),
     max_15min_power_this_month |-> GetT5(mapper, 6812 + BlockStride * block),
     timestamp_this_month |-> GetTimestamp(mapper, 6814 + BlockStride * block),
     max_15min_power_previous_month |-> GetT5(mapper, 6816 + BlockStride * block),
     timestamp_previous_month |-> GetTimestamp(mapper, 6818 + BlockStride * block),
     max_15min_power_this_year |-> GetT5(mapper, 6820 + BlockStride * block),
     timestamp_this_year |-> GetTimestamp(mapper, 6822 + BlockStride * block),
     max_15min_power_previous_year |-> GetT5(mapper, 6824 + BlockStride * block),
     timestamp_previous_year |-> GetTimestamp(mapper, 6826 + BlockStride * block),
     reset_timestamp |-> GetTimestamp(mapper, 6764)]

\* Lines 441-580: the loop appends each block's three values to the lists
\* consumed_energy, excess_power and max_15min_power, and each Time_Block is
\* built from the three lists themselves, so that when the loop is over
\* every Time_Block holds the three complete lists.
TimeBlocksOf(mapper, limits_mapper, capture_timestamp_mapper, count, exponent) ==
    LET consumed_energy ==
            [k \in 1..count |->
                ConsumedEnergyOf(mapper, capture_timestamp_mapper, k - 1, exponent)]
        excess_power ==
            [k \in 1..count |-> ExcessPowerOf(mapper, limits_mapper, k - 1)]
        max_15min_power ==
            [k \in 1..count |-> Max15minPowerOf(mapper, k - 1)]
    IN [k \in 1..count |->
           [consumed_energy |-> consumed_energy,
            excess_power |-> excess_power,
            max_15min_power |-> max_15min_power]]

\* get_time_blocks_measurements, lines 441-659, past its reads.
DecodeTimeBlocks(a) ==
    LET mapper == ModbusMapper(a.data, 6761)
        limits_mapper == ModbusMapper(a.limits, 990)
        active_power_measurements_mapper ==
            ModbusMapper(a.active_power_measurements, 5244)
        capture_timestamp_mapper == ModbusMapper(a.capture_timestamp, 4901)
        pred_15min_active_limit_mapper ==
            ModbusMapper(a.pred_15min_active_limit, 5261)
        exponent == GetInt16(mapper, 6762)
        count == DEVICE_PARAMETERS(a.model).time_block_count
    IN [time_blocks |->
            TimeBlocksOf(mapper, limits_mapper, capture_timestamp_mapper,
                         count, exponent),
        active_power_measurements_import |->
            [actual_value |-> GetT5(active_power_measurements_mapper, 5245),
             thermal_function |-> GetT5(active_power_measurements_mapper, 5247),
             predicted_15min |-> GetT5(active_power_measurements_mapper, 5249),
             predicted_15min_active_limit |->
                 GetInt16(pred_15min_active_limit_mapper, 5261),
             last_15min |-> GetT5(active_power_measurements_mapper, 5251),
             max_15min_since_reset |-> GetT5(mapper, 6778),
             active_energy_total |-> Scaled(GetUint32(mapper, 6774), exponent),
             timestamp |-> GetTimestamp(mapper, 6780)],
        active_power_measurements_export |->
            [actual_value |-> GetT5(active_power_measurements_mapper, 5253),
             thermal_function |-> GetT5(active_power_measurements_mapper, 5255),
             predicted_15min |-> GetT5(active_power_measurements_mapper, 5257),
             predicted_15min_active_limit |-> 0,
             last_15min |-> GetT5(active_power_measurements_mapper, 5259),
             max_15min_since_reset |-> Scaled(GetUint32(mapper, 6782), exponent),
             active_energy_total |-> Scaled(GetUint32(mapper, 6776), exponent),
             timestamp |-> GetTimestamp(mapper, 6784)],
        active_block_index |-> GetUint16(mapper, 6763),
        time_to_end_interval |-> GetUint16(active_power_measurements_mapper, 5244)]

InitTimeBlocks ==
    /\ AtRest
    /\ arg \in TimeBlockInputs
    /\ res = <<>>
    /\ step = "in"

GetTimeBlocksDecode ==
    /\ step = "in"
    /\ arg.fn = "get_time_blocks_measurements"
    /\ res' = DecodeTimeBlocks(arg)
    /\ step' = "out"
    /\ UNCHANGED <<arg, machine>>

NextTimeBlocks == GetTimeBlocksDecode

SpecTimeBlocks == InitTimeBlocks /\ [][NextTimeBlocks]_vars

----------------------------------------------------------------------------
\* Modbus.convert_registers_to_string (Modbus.py lines 53-61).  A string is the
\* sequence of the code points of its characters.

\* The longest register list converted.
MaxRegs == 3

\* The bytes the registers are packed from: the null, a blank and a letter.
Bytes == {0, 32, 73}

\* A register holding the byte hi above the byte lo.
Pack(hi, lo) == hi * 256 + lo

\* The 16-bit registers of a name field: every pair of these bytes, and the
\* two registers packing "IE" and "38".
NameRegisters ==
    {Pack(hi, lo) : hi, lo \in Bytes} \cup {Pack(73, 69), Pack(51, 56)}

\* The register lists handed to convert_registers_to_string.
StringInputs ==
    UNION {[1..n -> NameRegisters] : n \in 0..MaxRegs}

\* The two characters of a register taken low byte first.
TwoCharsLowFirst(register) == <<register % 256, register \div 256>>

\* Lines 58-60: chr(register >> 8) + chr(register & 0xFF).
TwoChars(register) == <<register \div 256, register % 256>>

\* Lines 56-60: the characters of all registers, in order.
RECURSIVE Joined(_)
Joined(registers) ==
    IF registers = <<>> THEN <<>>
    ELSE TwoChars(Head(registers)) \o Joined(Tail(registers))

\* string.split("\0")[0]: the characters before the first null.
RECURSIVE SplitNullFirst(_)
SplitNullFirst(string) ==
    IF string = <<>> \/ Head(string) = 0 THEN <<>>
    ELSE <<Head(string)>> \o SplitNullFirst(Tail(string))

\* The code points below 256 for which str.isspace() holds, which strip() removes.
Whitespace == {9, 10, 11, 12, 13, 28, 29, 30, 31, 32, 133, 160}

RECURSIVE LStrip(_)
LStrip(string) ==
    IF string # <<>> /\ Head(string) \in Whitespace
    THEN LStrip(Tail(string))
    ELSE string

RECURSIVE RStrip(_)
RStrip(string) ==
    IF string # <<>> /\ string[Len(string)] \in Whitespace
    THEN RStrip(SubSeq(string, 1, Len(string) - 1))
    ELSE string

\* str.strip().
Strip(string) == RStrip(LStrip(string))

\* Line 61: return string.split("\0")[0].strip().
ConvertRegistersToString(registers) ==
    Strip(SplitNullFirst(Joined(registers)))

InitString ==
    /\ AtRest
    /\ arg \in StringInputs
    /\ res = <<>>
    /\ step = "in"

ConvertString ==
    /\ step = "in"
    /\ res' = ConvertRegistersToString(arg)
    /\ step' = "out"
    /\ UNCHANGED <<arg, machine>>

NextString == ConvertString

SpecString == InitString /\ [][NextString]_vars

----------------------------------------------------------------------------
\* Device.create_device(adapter): the factory that reads the basic
\* information, looks the model name up in the per-model parameter table and
\* returns the device.

\* The characters of a key of DEVICE_PARAMETERS.
ModelKey(m) ==
    CASE m = "IE38" -> <<73, 69, 51, 56>>
      [] m = "IE35" -> <<73, 69, 51, 53>>
      [] OTHER -> <<73, 69, 49, 52>>

\* A factory that takes every model name.
SupportedAlways(model) == TRUE

\* The model name is a key of the parameter table.
Supported(model) == \E m \in Models : ModelKey(m) = model

\* The parameters the table holds for a model name, none for a name it lacks.
ParametersOf(model) ==
    LET ms == {k \in Models : ModelKey(k) = model}
    IN  IF ms = {} THEN <<>> ELSE DEVICE_PARAMETERS(CHOOSE k \in ms : TRUE)

\* The register lists a meter answers the model-name read with.
CreateInputs ==
    { [fn |-> "create_device", registers |-> r] : r \in StringInputs }

InitCreate ==
    /\ AtRest
    /\ arg \in CreateInputs
    /\ res = <<>>
    /\ step = "in"

\* adapter.get_basic_info(): the model name is decoded from the registers
\* (Modbus.py line 98).
CreateBasicInfo ==
    /\ step = "in"
    /\ arg.fn = "create_device"
    /\ res' = [model |-> ConvertRegistersToString(arg.registers),
               device |-> None, err |-> "none"]
    /\ step' = "info"
    /\ UNCHANGED <<arg, machine>>

\* The lookup: a known model gives the device with the parameters of its
\* model, an unknown one raises DeviceNotSupported and gives no device.
CreateLookup ==
    /\ step = "info"
    /\ IF Supported(res.model)
       THEN res' = [res EXCEPT !.device = <<ParametersOf(res.model)>>]
       ELSE res' = [res EXCEPT !.err = "DeviceNotSupported"]
    /\ step' = "out"
    /\ UNCHANGED <<arg, machine>>

NextCreate == CreateBasicInfo \/ CreateLookup

SpecCreate == InitCreate /\ [][NextCreate]_vars

----------------------------------------------------------------------------
\* check_time_blocks_support (lines 385-397; the definition at lines 372-383
\* is the same and is replaced by this one).

\* The largest raw value of the software-version register tried.
MaxVersion == 200

\* A number as a fraction; cnf_data / 100 is the fraction cnf_data over 100.
Fraction(num, den) == [num |-> num, den |-> den]

\* x <= y.
LessOrEqual(x, y) == x.num * y.den <= y.num * x.den

\* x < y, for fractions of positive denominators.
LessThan(x, y) == x.num * y.den < y.num * x.den

\* The register values tried for input register 13.
VersionInputs ==
    { [fn |-> "check_time_blocks_support", cnf_data |-> <<v>>] : v \in 0..MaxVersion }

\* Lines 391-397.
CheckTimeBlocksSupportOf(a) ==
    LET mapper == ModbusMapper(a.cnf_data, 13)
        cnf_data == GetUint16(mapper, 13)
        sw_version == Fraction(cnf_data, 100)
    IN  IF LessThan(sw_version, Fraction(1, 1)) \/ LessThan(Fraction(15, 10), sw_version)
        THEN TRUE
        ELSE FALSE

InitVersion ==
    /\ AtRest
    /\ arg \in VersionInputs
    /\ res = <<>>
    /\ step = "in"

CheckTimeBlocksSupport ==
    /\ step = "in"
    /\ res' = CheckTimeBlocksSupportOf(arg)
    /\ step' = "out"
    /\ UNCHANGED <<arg, machine>>

NextVersion == CheckTimeBlocksSupport

SpecVersion == InitVersion /\ [][NextVersion]_vars

----------------------------------------------------------------------------
\* The software version as get_basic_info reports it (Modbus.py lines 93-102)
\* and as check_time_blocks_support reads it (IMPACT.py lines 390-393), from
\* the same meter.

\* The raw values tried for a version register: those next to the multiples
\* of 50, which include both thresholds of the probe.
VersionsNearBounds == {v \in 0..MaxVersion : v % 50 \in {0, 1, 49}}

\* The meters tried: input registers 13 and 14 hold r13 and r14, the other
\* input registers 0.
SwVerInputs ==
    { [fn |-> "sw_ver", r13 |-> x, r14 |-> y] :
        x \in VersionsNearBounds, y \in VersionsNearBounds }

\* The meter's input register at an address.
InputRegister(a, address) ==
    CASE address = 13 -> a.r13
      [] address = 14 -> a.r14
      [] OTHER -> 0

\* The response of read_input_registers(start, count): response.registers.
ReadInputRegisters(a, start, count) ==
    [i \in 1..count |-> InputRegister(a, start + i - 1)]

\* Modbus.get_basic_info, lines 93 and 102:
\* response = read_input_registers(1, 14); sw_ver = response.registers[13] / 100.
BasicInfoSwVer(a) ==
    LET response == ReadInputRegisters(a, 1, 14)
    IN  Fraction(response[13 + 1], 100)

\* check_time_blocks_support, lines 390-393: the version it compares.
ProbedSwVersion(a) ==
    LET cnf_data == ReadInputRegisters(a, 13, 1)
        mapper == ModbusMapper(cnf_data, 13)
    IN  Fraction(GetUint16(mapper, 13), 100)

InitSwVer ==
    /\ AtRest
    /\ arg \in SwVerInputs
    /\ res = [sw_ver |-> None, sw_version |-> None, supported |-> None]
    /\ step = "in"

\* get_basic_info has read the version.
GetBasicInfoSwVer ==
    /\ step = "in"
    /\ arg.fn = "sw_ver"
    /\ res.sw_ver = None
    /\ res' = [res EXCEPT !.sw_ver = <<BasicInfoSwVer(arg)>>]
    /\ step' = IF res.sw_version # None THEN "out" ELSE "in"
    /\ UNCHANGED <<arg, machine>>

\* check_time_blocks_support has read the version and answered.
ProbeSwVersion ==
    /\ step = "in"
    /\ arg.fn = "sw_ver"
    /\ res.sw_version = None
    /\ res' = [res EXCEPT
                 !.sw_version = <<ProbedSwVersion(arg)>>,
                 !.supported =
                    <<CheckTimeBlocksSupportOf(
                         [cnf_data |-> ReadInputRegisters(arg, 13, 1)])>>]
    /\ step' = IF res.sw_ver # None THEN "out" ELSE "in"
    /\ UNCHANGED <<arg, machine>>

NextSwVer == GetBasicInfoSwVer \/ ProbeSwVersion

SpecSwVer == InitSwVer /\ [][NextSwVer]_vars

----------------------------------------------------------------------------
\* get_measurements past its reads (lines 129-217), next to get_counters.

\* ModbusMapper.get_t6: the same two registers as get_t5.
GetT6(w, address) == GetT5(w, address)

\* ModbusMapper.get_t7: the value with its flag; the recipe reads ["value"].
GetT7(w, address) == [value |-> GetT5(w, address)]

\* The phase (1, 2, 3) whose quantity the input register at `address` belongs
\* to in the layout of lines 131-166, 0 for a register of no phase.
PhaseOwner(address) ==
    CASE \E base \in {107, 126, 142, 150, 158, 166} :
            address \in base..(base + 5) ->
              LET base == CHOOSE b \in {107, 126, 142, 150, 158, 166} :
                              address \in b..(b + 5)
              IN  (address - base) \div 2 + 1
      [] \E base \in {173, 182, 188} : address \in base..(base + 2) ->
              LET base == CHOOSE b \in {173, 182, 188} : address \in b..(b + 2)
              IN  address - base + 1
      [] OTHER -> 0

\* The inputs tried: every model, and 91 input registers at 100 in which a
\* register of phase k holds k * v.
MeasurementInputs ==
    { [fn |-> "get_measurements", model |-> m, v |-> v,
       data |-> [i \in 1..91 |-> PhaseOwner(99 + i) * v]] :
      m \in Models, v \in 1..MaxRegister }

\* Lines 131-179: the Phase_Measurements of one phase.
PhaseMeasurements(mapper, phase) ==
    [voltage |-> GetT5(mapper, 107 + 2 * phase),
     current |-> GetT5(mapper, 126 + 2 * phase),
     active_power |-> GetT6(mapper, 142 + 2 * phase),
     reactive_power |-> GetT6(mapper, 150 + 2 * phase),
     apparent_power |-> GetT5(mapper, 158 + 2 * phase),
     power_factor |-> GetT7(mapper, 166 + 2 * phase).value,
     power_angle |-> GetInt16(mapper, 173 + phase),
     thd_voltage |-> GetUint16(mapper, 182 + phase),
     thd_current |-> GetUint16(mapper, 188 + phase)]

\* Lines 116, 129-217 for the actual measurement type.
DecodeMeasurements(a) ==
    LET mapper == ModbusMapper(a.data, 100)
        phases == DEVICE_PARAMETERS(a.model).phases
    IN [phases |-> [k \in 1..phases |-> PhaseMeasurements(mapper, k - 1)],
        total |-> [active_power |-> GetT6(mapper, 140),
                   reactive_power |-> GetT6(mapper, 148),
                   apparent_power |-> GetT5(mapper, 156),
                   power_factor |-> GetT7(mapper, 164).value,
                   power_angle |-> GetInt16(mapper, 172)],
        frequency |-> GetT5(mapper, 105),
        temperature |-> GetInt16(mapper, 181),
        interval_stats |-> None]

InitSizes ==
    /\ AtRest
    /\ arg \in CounterInputs \cup MeasurementInputs
    /\ res = <<>>
    /\ step = "in"

GetMeasurementsDecode ==
    /\ step = "in"
    /\ arg.fn = "get_measurements"
    /\ res' = DecodeMeasurements(arg)
    /\ step' = "out"
    /\ UNCHANGED <<arg, machine>>

NextSizes == GetMeasurementsDecode \/ GetCountersDecode

SpecSizes == InitSizes /\ [][NextSizes]_vars

----------------------------------------------------------------------------
\* The accessor calls of the decode recipes: which mapper each one reads,
\* at which address, and over which registers the mapper was built.

AllMeasurementTypes == {"ACTUAL", "AVERAGE", "MAX", "MIN"}

\* get_measurements, lines 101-112: the registers of the other measurement
\* types are those of the actual one, shifted.
Offset(mt) ==
    CASE mt = "AVERAGE" -> 5400
      [] mt = "MAX" -> 5500
      [] mt = "MIN" -> 5600
      [] OTHER -> 0

\* A mapper anchored at the address its registers were read from.
MapperAtRead(name, start, count, anchor) ==
    [mapper |-> name, start |-> start, count |-> count, anchor |-> start]

\* ModbusMapper(data, anchor) over the `count` registers read at `start`.
Mapper(name, start, count, anchor) ==
    [mapper |-> name, start |-> start, count |-> count, anchor |-> anchor]

\* The mappers a recipe builds (lines 115-121, 236-251, 423-436).
MappersOf(fn, mt) ==
    CASE fn = "get_measurements" ->
            {Mapper("mapper", 100 + Offset(mt), 91, 100)}
            \cup (IF mt # "ACTUAL"
                  THEN {Mapper("interval_stats_mapper", 5500, 2, 100)}
                  ELSE {})
      [] fn = "get_counters" ->
            {Mapper("data_mapper", 2750, 96, 2750),
             Mapper("non_resettable_settings_mapper", 421, 16, 421),
             Mapper("resettable_settings_mapper", 437, 64, 437)}
      [] OTHER ->
            {Mapper("mapper", 6761, 238, 6761),
             Mapper("limits__mapper", 990, 5, 990),
             Mapper("active_power_measurements_mapper", 5244, 18, 5244),
             Mapper("capture_timestamp_mapper", 4901, 2, 4901),
             Mapper("pred_15min_active_limit_mapper", 5261, 2, 5261)}

\* The registers an accessor decodes its value from: one for get_uint16 and
\* get_int16, two for the others.
Width(accessor) ==
    IF accessor \in {"get_uint16", "get_int16"} THEN 1 ELSE 2

\* One accessor call.
Get(name, accessor, address) ==
    [mapper |-> name, accessor |-> accessor, address |-> address]

\* The calls of f[0], ..., f[n - 1], one after the other.
RECURSIVE Loop(_, _)
Loop(f, n) == IF n = 0 THEN <<>> ELSE Loop(f, n - 1) \o f[n - 1]

\* A phase's register of a two-register quantity, taken 32 registers apart.
PhaseRegisterWide(base, phase) == base + 32 * phase

\* Lines 132-152: the register of a two-register quantity of a phase.
PhaseRegister(base, phase) == base + 2 * phase

\* get_measurements, lines 129-208.
MeasurementCalls(phases, mt) ==
    (IF mt # "ACTUAL"
     THEN << Get("interval_stats_mapper", "get_uint16", 100),
             Get("interval_stats_mapper", "get_int16", 101) >>
     ELSE <<>>)
    \o Loop([phase \in 0..(phases - 1) |->
              << Get("mapper", "get_t5", PhaseRegister(107, phase)),
                 Get("mapper", "get_t5", PhaseRegister(126, phase)),
                 Get("mapper", "get_t6", PhaseRegister(142, phase)),
                 Get("mapper", "get_t6", PhaseRegister(150, phase)),
                 Get("mapper", "get_t5", PhaseRegister(158, phase)),
                 Get("mapper", "get_t7", PhaseRegister(166, phase)),
                 Get("mapper", "get_int16", 173 + phase),
                 Get("mapper", "get_uint16", 182 + phase),
                 Get("mapper", "get_uint16", 188 + phase) >>], phases)
    \o << Get("mapper", "get_t6", 140),
          Get("mapper", "get_t6", 148),
          Get("mapper", "get_t5", 156),
          Get("mapper", "get_t7", 164),
          Get("mapper", "get_int16", 172),
          Get("mapper", "get_t5", 105),
          Get("mapper", "get_int16", 181) >>

\* get_counters, lines 262-297.
CounterCalls(p) ==
    Loop([counter \in 0..(p.non_resettable_counters - 1) |->
           << Get("non_resettable_settings_mapper", "get_uint16", 421 + 4 * counter),
              Get("non_resettable_settings_mapper", "get_uint16", 422 + 4 * counter),
              Get("data_mapper", "get_float", 2752 + 2 * counter) >>],
         p.non_resettable_counters)
    \o Loop([counter \in 0..(p.resettable_counters - 1) |->
           << Get("resettable_settings_mapper", "get_uint16", 437 + 4 * counter),
              Get("resettable_settings_mapper", "get_uint16", 438 + 4 * counter),
              Get("data_mapper", "get_float", 2760 + 2 * counter) >>],
         p.resettable_counters)

\* get_time_blocks_measurements, lines 446-657.
TimeBlockCalls(time_block_count) ==
    << Get("mapper", "get_int16", 6762) >>
    \o Loop([block \in 0..(time_block_count - 1) |->
           << Get("mapper", "get_uint32", 6786 + 42 * block),
              Get("capture_timestamp_mapper", "get_timestamp", 4901),
              Get("mapper", "get_uint32", 6788 + 42 * block),
              Get("mapper", "get_timestamp", 6766),
              Get("mapper", "get_uint32", 6790 + 42 * block),
              Get("mapper", "get_timestamp", 6768),
              Get("mapper", "get_uint32", 6792 + 42 * block),
              Get("mapper", "get_timestamp", 6770),
              Get("mapper", "get_uint32", 6794 + 42 * block),
              Get("mapper", "get_timestamp", 6772),
              Get("mapper", "get_uint32", 6796 + 42 * block),
              Get("mapper", "get_uint32", 6798 + 42 * block),
              Get("mapper", "get_uint32", 6800 + 42 * block),
              Get("mapper", "get_uint32", 6802 + 42 * block),
              Get("limits__mapper", "get_uint16", 990 + 1 * block),
              Get("mapper", "get_t5", 6804 + 42 * block),
              Get("mapper", "get_t5", 6806 + 42 * block),
              Get("mapper", "get_t5", 6808 + 42 * block),
              Get("mapper", "get_timestamp", 6810 + 42 * block),
              Get("mapper", "get_t5", 6812 + 42 * block),
              Get("mapper", "get_timestamp", 6814 + 42 * block),
              Get("mapper", "get_t5", 6816 + 42 * block),
              Get("mapper", "get_timestamp", 6818 + 42 * block),
              Get("mapper", "get_t5", 6820 + 42 * block),
              Get("mapper", "get_timestamp", 6822 + 42 * block),
              Get("mapper", "get_t5", 6824 + 42 * block),
              Get("mapper", "get_timestamp", 6826 + 42 * block),
              Get("mapper", "get_timestamp", 6764) >>], time_block_count)
    \o << Get("active_power_measurements_mapper", "get_t5", 5245),
          Get("active_power_measurements_mapper", "get_t5", 5247),
          Get("active_power_measurements_mapper", "get_t5", 5249),
          Get("pred_15min_active_limit_mapper", "get_int16", 5261),
          Get("active_power_measurements_mapper", "get_t5", 5251),
          Get("mapper", "get_t5", 6778),
          Get("mapper", "get_uint32", 6774),
          Get("mapper", "get_timestamp", 6780),
          Get("active_power_measurements_mapper", "get_t5", 5253),
          Get("active_power_measurements_mapper", "get_t5", 5255),
          Get("active_power_measurements_mapper", "get_t5", 5257),
          Get("active_power_measurements_mapper", "get_t5", 5259),
          Get("mapper", "get_uint32", 6782),
          Get("mapper", "get_uint32", 6776),
          Get("mapper", "get_timestamp", 6784),
          Get("mapper", "get_uint16", 6763),
          Get("active_power_measurements_mapper", "get_uint16", 5244) >>

\* The accessor calls of a recipe on a device of the model, in order.
AccessorCalls(a) ==
    LET p == DEVICE_PARAMETERS(a.model) IN
    CASE a.fn = "get_measurements" -> MeasurementCalls(p.phases, a.mt)
      [] a.fn = "get_counters" -> CounterCalls(p)
      [] OTHER -> TimeBlockCalls(p.time_block_count)

\* The accessor's range test: the local offset address - start_address of
\* every register it decodes is inside the registers of the mapper.
InRange(w, address, width) ==
    /\ address - w.anchor >= 0
    /\ address - w.anchor + width - 1 < w.count

\* The recipes, models and measurement types tried.
AccessInputs ==
    { [fn |-> "get_measurements", model |-> m, mt |-> mt] :
         m \in Models, mt \in AllMeasurementTypes }
    \cup { [fn |-> fn, model |-> m, mt |-> "ACTUAL"] :
         fn \in {"get_counters", "get_time_blocks_measurements"}, m \in Models }

InitAccess ==
    /\ AtRest
    /\ arg \in AccessInputs
    /\ res = <<>>
    /\ step = "in"

\* The recipe's next accessor call: res collects the calls made, each with
\* the mapper it went to and whether the mapper took the address.
AccessorCall ==
    /\ step = "in"
    /\ LET calls == AccessorCalls(arg)
           c == calls[Len(res) + 1]
           w == CHOOSE x \in MappersOf(arg.fn, arg.mt) : x.mapper = c.mapper
       IN  /\ res' = Append(res, [mapper |-> c.mapper, address |-> c.address,
                                   width |-> Width(c.accessor),
                                   start |-> w.start, count |-> w.count,
                                   anchor |-> w.anchor,
                                   ok |-> InRange(w, c.address, Width(c.accessor))])
           /\ step' = IF Len(res) + 1 = Len(calls) THEN "out" ELSE "in"
    /\ UNCHANGED <<arg, machine>>

NextAccess == AccessorCall

SpecAccess == InitAccess /\ [][NextAccess]_vars

----------------------------------------------------------------------------
\* Properties.

\* Task t is inside the block of `async with self.update_lock` (lines 318-333).
InSection(t) ==
    /\ tasks[t].op = "update_status"
    /\ tasks[t].pc \notin {"idle", "us_310", "us_313", "returned", "raised"}

\* The events of kind k in the log of a call.
EventsOf(r, k) == SelectSeq(r.log, LAMBDA e : e.e = k)

\* The call r has issued something to the transport or written a snapshot field.
Touched(r) == r.log # <<>>

\* C1: at every moment at most one update_status call is inside the locked
\* fetch section, however many callers there are.
C1_OneUpdateInSection ==
    Cardinality({t \in Tasks : InSection(t)}) <= 1

\* C1 witness: one caller is in the middle of its fetch while another caller
\* of update_status is waiting for it.
C1_Witness ==
    \E t, u \in Tasks :
        /\ InSection(t) /\ tasks[t].pc = "rd_135"
        /\ tasks[u].op = "update_status" /\ tasks[u].pc = "us_313"

\* C2: an update_status call that found the lock taken on entry issues no
\* connection open, no register read, no REST call and writes no snapshot
\* field; so of the update_status calls in progress at most one has touched
\* the transport.
C2_WaiterDoesNoWork ==
    /\ \A t \in Tasks :
          tasks[t].op = "update_status" /\ tasks[t].busy => ~Touched(tasks[t])
    /\ Cardinality({t \in Tasks :
                       tasks[t].op = "update_status" /\ Touched(tasks[t])}) <= 1

\* C2 witness: a caller that found an update in progress returns after that
\* update has run its fetch to the end.
C2_Witness ==
    \E t \in Tasks :
        /\ tasks[t].op = "update_status" /\ tasks[t].busy
        /\ tasks[t].pc = "returned"
        /\ last_update = [call |-> tasks[t].waitfor, ok |-> TRUE]

\* C3 as claimed: when a caller that waited returns, the update that held the
\* lock last has completed and every snapshot field is the one it wrote.
C3_WaiterReturnsOverCompletedSnapshot ==
    \A t \in Tasks :
        tasks[t].op = "update_status" /\ tasks[t].busy /\ tasks[t].pc = "returned"
        => /\ last_update.call >= tasks[t].waitfor
           /\ last_update.ok
           /\ \A c \in Categories : wrote[c] = last_update.call

\* C3 amended: when a caller that waited returns, the lock is free and the
\* update it waited for has ended, successfully or not; if the update that
\* left the lock last succeeded, every snapshot field is the one it wrote and
\* update_timestamp is its stamp.
C3_WaiterReturnsAfterUpdateEnded ==
    \A t \in Tasks :
        tasks[t].op = "update_status" /\ tasks[t].busy /\ tasks[t].pc = "returned"
        => /\ ~update_lock
           /\ \A u \in Tasks : ~InSection(u)
           /\ tasks[t].waitfor > 0
           /\ last_update.call >= tasks[t].waitfor
           /\ last_update.ok =>
                 /\ \A c \in Categories : wrote[c] = last_update.call
                 /\ update_timestamp = now /\ now > 0

\* C3 witness: a caller that waited returns although the update it waited
\* for has failed after writing the measurements.
C3_Witness ==
    \E t \in Tasks :
        /\ tasks[t].op = "update_status" /\ tasks[t].busy
        /\ tasks[t].pc = "returned"
        /\ last_update = [call |-> tasks[t].waitfor, ok |-> FALSE]
        /\ wrote["measurements"] = last_update.call
        /\ wrote["counters"] # last_update.call

\* C4: when an exception leaves update_status the lock is free, and the lock
\* is never left taken without a call inside the locked section, so a later
\* call takes the lock and fetches.
C4_LockFreeAfterFailure ==
    /\ \A t \in Tasks :
          tasks[t].op = "update_status" /\ tasks[t].pc = "raised"
          => ~update_lock /\ ~tasks[t].holds
    /\ update_lock => \E u \in Tasks : InSection(u)

\* C4 witness: after an update_status call that failed, a later call holds
\* the lock and has a register read in flight.
C4_Witness ==
    \E t \in Tasks :
        /\ InSection(t) /\ tasks[t].pc = "rd_135"
        /\ last_update.call > 0 /\ ~last_update.ok
        /\ tasks[t].call > last_update.call

\* The place of a category in the order of update_status; "none" is the
\* connection open before the first category, "close" the close after the last.
Ord(c) ==
    CASE c = "none" -> 0
      [] c = "measurements" -> 1
      [] c = "counters" -> 2
      [] c = "time_blocks" -> 3
      [] OTHER -> 4

\* The call r has assigned the snapshot field of category c.
Written(r, c) == \E i \in 1..Len(r.log) : r.log[i] = [e |-> "write", c |-> c]

\* C5: when an exception leaves update_status, the fields of the categories
\* before the failing one were assigned by this call, and the field of the
\* failing category and of every later one is as it was before the call.
C5_FailureKeepsLaterCategories ==
    \A t \in Tasks :
        tasks[t].op = "update_status" /\ tasks[t].pc = "raised"
        => \A c \in Categories :
              IF Ord(c) < Ord(tasks[t].cat)
              THEN Written(tasks[t], c) /\ wrote[c] = tasks[t].call
              ELSE /\ ~Written(tasks[t], c)
                   /\ wrote[c] # tasks[t].call
                   /\ snapshot[c] = tasks[t].pre[c]

\* C5 witness: a failure while fetching counters, after an earlier update had
\* filled the fields: measurements are new, counters are the old ones.
C5_Witness ==
    \E t \in Tasks :
        /\ tasks[t].op = "update_status" /\ tasks[t].pc = "raised"
        /\ tasks[t].cat = "counters"
        /\ tasks[t].pre["counters"] # None
        /\ snapshot["measurements"] # tasks[t].pre["measurements"]
        /\ snapshot["counters"] = tasks[t].pre["counters"]

\* C6: update_timestamp changes only in the last step of an update_status
\* call that took the lock, assigned all three categories and, on a Modbus
\* device, has just closed the connection.
C6_StampOnlyAfterFullUpdate ==
    [][update_timestamp' # update_timestamp =>
         \E t \in Tasks :
            /\ cur = t
            /\ tasks[t].op = "update_status" /\ ~tasks[t].busy
            /\ tasks[t].pc = "us_333" /\ tasks'[t].pc = "returned"
            /\ \A c \in Categories : Written(tasks[t], c)
            /\ adapter = "Modbus" =>
                  /\ ~connected
                  /\ tasks[t].log[Len(tasks[t].log)].e = "close"]_vars

\* C6 witness: an update_status call returns having stamped update_timestamp.
C6_Witness ==
    \E t \in Tasks :
        /\ tasks[t].op = "update_status" /\ ~tasks[t].busy
        /\ tasks[t].pc = "returned"
        /\ update_timestamp = now /\ now > 0

\* C7: a snapshot field is assigned only by a step of an update_status call
\* that took the lock and is inside the locked section; no step of a direct
\* get_measurements, get_counters or get_time_blocks_measurements call and
\* no step of a waiting update_status call assigns one.
C7_OnlyLockHolderWrites ==
    [][(snapshot' # snapshot \/ wrote' # wrote) =>
         \E t \in Tasks :
            /\ cur' = t
            /\ tasks[t].op = "update_status" /\ ~tasks[t].busy
            /\ InSection(t)
            /\ update_lock /\ update_lock']_vars

\* C7 witness: a direct get_counters call returns the counters it fetched
\* while the counters field has never been assigned.
C7_Witness ==
    \E t \in Tasks :
        /\ tasks[t].op = "get_counters" /\ tasks[t].pc = "returned"
        /\ tasks[t].buf # None
        /\ wrote["counters"] = 0

\* The register reads one update_status issues on this device.
ReadsPerUpdate ==
    Len(ReadsOf("measurements", "ACTUAL")) + Len(ReadsOf("counters", "ACTUAL"))
      + (IF supports_time_blocks THEN Len(ReadsOf("time_blocks", "ACTUAL")) ELSE 0)

\* C8: a successful update_status on a Modbus device whose connection nobody
\* else took down opens the connection once, before its first read, closes
\* it once, after its last read, and its reads open and close nothing.
C8_OneOpenOneClose ==
    \A t \in Tasks :
        /\ tasks[t].op = "update_status" /\ ~tasks[t].busy
        /\ tasks[t].pc = "returned"
        /\ adapter = "Modbus" /\ ~tasks[t].lost
        => LET log == tasks[t].log IN
           /\ Len(EventsOf(tasks[t], "open")) = 1
           /\ Len(EventsOf(tasks[t], "close")) = 1
           /\ Len(EventsOf(tasks[t], "read")) = ReadsPerUpdate
           /\ log[1].e = "open"
           /\ log[Len(log) - 1].e = "close"
           /\ log[Len(log)].e = "stamp"

\* C8 witness: such an update_status call returns on a device with time
\* blocks, after ten register reads.
C8_Witness ==
    \E t \in Tasks :
        /\ tasks[t].op = "update_status" /\ tasks[t].pc = "returned"
        /\ adapter = "Modbus" /\ ~tasks[t].lost /\ supports_time_blocks
        /\ Len(EventsOf(tasks[t], "read")) = ReadsPerUpdate

\* C9: a standalone register read entered while the connection is closed,
\* with no other operation on the adapter, leaves the connection closed when
\* it ends, whether it returns or raises.
C9_ReadClosesWhatItOpened ==
    \A t \in Tasks :
        /\ tasks[t].op \in ReadOps /\ ~tasks[t].found_open
        /\ tasks[t].pc \in {"returned", "raised"}
        /\ \A u \in Tasks \ {t} : tasks[u].pc = "idle"
        => ~connected

\* C10: a register read entered while the connection is open issues the read
\* at once, without an open, and when its response is back it has closed
\* nothing and the connection is still open.
C10_OpenConnectionIsReused ==
    [][\A t \in Tasks :
         /\ (tasks[t].pc = "rd_131" /\ tasks'[t].pc # "rd_131" /\ connected)
            => /\ tasks'[t].pc = "rd_135"
               /\ tasks'[t].log =
                     Append(tasks[t].log, [e |-> "read", c |-> tasks[t].cat])
               /\ connected'
         /\ (tasks[t].pc = "rd_135" /\ tasks[t].found_open
                /\ tasks'[t].pc = "rd_ret")
            => /\ tasks'[t].log = tasks[t].log
               /\ connected /\ connected']_vars

\* C10 witness: a standalone read that found the connection open has its
\* response back.
C10_Witness ==
    \E t \in Tasks :
        /\ tasks[t].op \in ReadOps /\ tasks[t].pc = "rd_ret"
        /\ tasks[t].found_open /\ connected

\* C11: a standalone register read never returns an error response to its
\* caller, and when it raises it raises DeviceConnectionError or
\* InvalidResponseCode.
C11_NoErrorResponseReturned ==
    \A t \in Tasks :
        tasks[t].op \in ReadOps
        => /\ tasks[t].pc = "returned" => ~tasks[t].bad
           /\ tasks[t].pc = "raised"
                 => tasks[t].err \in {"DeviceConnectionError", "InvalidResponseCode"}

\* The reads task t's call has issued on the transport so far.
Issued(r) == Len(EventsOf(r, "read")) + Len(EventsOf(r, "rest"))

\* The step ends a transport read of task t without a response: the register
\* read is left without a response to hand back, the REST call without a
\* value to assign.
ReadFailed(t) ==
    \/ tasks[t].pc = "rd_135" /\ tasks'[t].pc \notin {"rd_135", "rd_ret"}
    \/ /\ tasks[t].pc = "rest_await" /\ tasks'[t].pc # "rest_await"
       /\ wrote' = wrote

\* C12: when a transport read of an update_status call fails, that step ends
\* the call with the exception: the read is not issued again, nothing more is
\* issued or assigned by the call, and its next step hands the exception to
\* the caller.
C12_FailedReadEndsUpdate ==
    [][\A t \in Tasks :
         tasks[t].op = "update_status"
         => /\ ReadFailed(t)
               => /\ tasks'[t].pc = "raised"
                  /\ tasks'[t].err # "none"
                  /\ tasks'[t].log = tasks[t].log
                  /\ snapshot' = snapshot
            /\ tasks[t].pc = "raised" => tasks'[t].pc \in {"raised", "idle"}]_vars

\* C12 witness: an update_status call has raised DeviceConnectionError out of
\* its second counters read, with fewer reads issued than a full update makes.
C12_Witness ==
    \E t \in Tasks :
        /\ tasks[t].op = "update_status" /\ tasks[t].pc = "raised"
        /\ tasks[t].err = "DeviceConnectionError"
        /\ tasks[t].cat = "counters" /\ tasks[t].idx = 2
        /\ Issued(tasks[t]) = 3
        /\ Issued(tasks[t]) < ReadsPerUpdate

\* C13: every update_status call ends, by returning or by raising.
C13_EveryUpdateEnds ==
    \A t \in Tasks :
        (tasks[t].op = "update_status") ~> (tasks[t].pc \in {"returned", "raised"})

ClaimedDirection(conf, reversed) ==
    CASE ~reversed -> conf
      [] reversed /\ conf = "import" -> "export"
      [] OTHER -> "import"

\* C15: get_counters yields one counter per slot of the model, resettable
\* and non-resettable; each has its slot's configured direction when bit 1
\* (mask 2) of register 151 is clear and the opposite one when it is set,
\* and its type is derived from that resulting direction and the slot's units.
C15_DirectionInvertedWhenReversed ==
    step = "out" /\ arg.fn = "get_counters"
    => LET reversed == arg.direction_settings[1] \in {2, 3, 6, 7}
           p == DEVICE_PARAMETERS(arg.model)
       IN /\ Len(res.non_resettable) = p.non_resettable_counters
          /\ Len(res.resettable) = p.resettable_counters
          /\ \A c \in 1..Len(res.non_resettable) :
                /\ res.non_resettable[c].direction =
                      ClaimedDirection(arg.conf_nr[c - 1], reversed)
                /\ res.non_resettable[c].counter_type =
                      <<res.non_resettable[c].direction, arg.units_nr[c - 1]>>
          /\ \A c \in 1..Len(res.resettable) :
                /\ res.resettable[c].direction =
                      ClaimedDirection(arg.conf_rs[c - 1], reversed)
                /\ res.resettable[c].counter_type =
                      <<res.resettable[c].direction, arg.units_rs[c - 1]>>

\* C15 witness: with register 151 = 2, a resettable slot configured as import
\* comes out as export next to a non-resettable one configured as export
\* that comes out as import.
C15_Witness ==
    /\ step = "out" /\ arg.fn = "get_counters"
    /\ arg.direction_settings = <<2>>
    /\ arg.conf_rs[5] = "import" /\ res.resettable[6].direction = "export"
    /\ arg.conf_nr[0] = "export" /\ res.non_resettable[1].direction = "import"

\* What the registers of block k (counted from 1) hold in the input tried.
OwnRegister(k) == IF k - 1 = arg.sp THEN arg.v1 ELSE arg.v2

OwnLimit(k) == IF k - 1 = arg.sp THEN arg.l1 ELSE arg.l2

\* Entry e of a Time_Block's lists is decoded from block k's own registers.
FromBlock(tb, e, k) ==
    /\ tb.consumed_energy[e].total.value = OwnRegister(k) * 65536 + OwnRegister(k)
    /\ tb.consumed_energy[e].previous_year.value =
          OwnRegister(k) * 65536 + OwnRegister(k)
    /\ tb.excess_power[e].excess_power_limit = OwnLimit(k)
    /\ tb.excess_power[e].excess_power_this_month = <<OwnRegister(k), OwnRegister(k)>>
    /\ tb.max_15min_power[e].max_15min_power_since_reset =
          <<OwnRegister(k), OwnRegister(k)>>
    /\ tb.max_15min_power[e].timestamp_previous_year =
          <<OwnRegister(k), OwnRegister(k)>>

\* C16 as claimed: there are time_block_count TimeBlocks, and the k-th holds
\* one ConsumedEnergy, one ExcessPower and one Max15minPower, those of block
\* k's own registers, and nothing of another block.
C16_BlockHoldsOnlyItsOwnData ==
    step = "out" /\ arg.fn = "get_time_blocks_measurements"
    => /\ Len(res.time_blocks) = DEVICE_PARAMETERS(arg.model).time_block_count
       /\ \A k \in 1..Len(res.time_blocks) :
             /\ Len(res.time_blocks[k].consumed_energy) = 1
             /\ Len(res.time_blocks[k].excess_power) = 1
             /\ Len(res.time_blocks[k].max_15min_power) = 1
             /\ FromBlock(res.time_blocks[k], 1, k)

\* C16 amended: there are time_block_count TimeBlocks in block order; each
\* holds the same three lists, with one entry per block in block order, and
\* entry k of the k-th TimeBlock's lists is decoded from block k's own
\* registers (stride 42, limit register 990 + k).
C16_BlockDataAtItsIndex ==
    step = "out" /\ arg.fn = "get_time_blocks_measurements"
    => LET n == DEVICE_PARAMETERS(arg.model).time_block_count IN
       /\ Len(res.time_blocks) = n
       /\ \A k \in 1..n :
             /\ Len(res.time_blocks[k].consumed_energy) = n
             /\ Len(res.time_blocks[k].excess_power) = n
             /\ Len(res.time_blocks[k].max_15min_power) = n
             /\ res.time_blocks[k] = res.time_blocks[1]
             /\ FromBlock(res.time_blocks[k], k, k)

\* C16 witness: block 3's registers differ from the others', and the third
\* TimeBlock has them at entry 3 and another block's at entry 1.
C16_Witness ==
    /\ step = "out" /\ arg.fn = "get_time_blocks_measurements"
    /\ arg.sp = 2 /\ arg.v1 = 2 /\ arg.v2 = 1 /\ arg.l1 = 0 /\ arg.l2 = 1
    /\ res.time_blocks[3].consumed_energy[3].this_month.value = 2 * 65536 + 2
    /\ res.time_blocks[3].consumed_energy[1].this_month.value = 65536 + 1
    /\ res.time_blocks[3].excess_power[3].excess_power_limit = 0

\* The device supports time blocks, as init's probe of time-block support
\* has recorded it (lines 68 and 70).
TimeBlocksSupported ==
    \/ adapter = "Modbus" /\ supports_time_blocks
    \/ adapter = "RestAPI" /\ supports_iMC_functions

\* C17: on a device without time-block support an update_status call issues
\* no time-block register read, open or REST call, and once it has gone
\* through the time-block step the time-block field is None.
C17_NoTimeBlockFetchWithoutSupport ==
    \A t \in Tasks :
        tasks[t].op = "update_status" /\ ~TimeBlocksSupported
        => /\ \A i \in 1..Len(tasks[t].log) :
                 tasks[t].log[i].c = "time_blocks" => tasks[t].log[i].e = "write"
           /\ Written(tasks[t], "time_blocks") => snapshot["time_blocks"] = None
           /\ (~tasks[t].busy /\ tasks[t].pc = "returned")
                 => Written(tasks[t], "time_blocks")

\* C17 witness: an update_status call on a device without time-block support
\* returns with measurements and counters fetched and no time blocks.
C17_Witness ==
    \E t \in Tasks :
        /\ tasks[t].op = "update_status" /\ tasks[t].pc = "returned"
        /\ ~tasks[t].busy /\ ~TimeBlocksSupported
        /\ snapshot["counters"] # None
        /\ snapshot["time_blocks"] = None
        /\ wrote["time_blocks"] = tasks[t].call

\* The steps claimed for init before its update_status.
ClaimedOrder ==
    IF adapter = "Modbus" THEN <<"basic_info", "iMC", "nominal_power", "tb_support">>
    ELSE <<"basic_info", "tb_support">>

\* C18 as claimed: the steps of init run in the fixed order, update_status is
\* called once and after all of them, a successful init leaves measurements,
\* counters and update_timestamp populated, and an init that raises in a
\* step has run nothing of the later steps.
C18_InitOrderAndPopulated ==
    \A t \in Tasks :
        tasks[t].init
        => /\ tasks[t].done = SubSeq(ClaimedOrder, 1, Len(tasks[t].done))
           /\ tasks[t].op = "init" => tasks[t].nupd = 0 /\ tasks[t].pc # "returned"
           /\ tasks[t].op = "update_status"
                 => tasks[t].nupd = 1 /\ tasks[t].done = ClaimedOrder
           /\ tasks[t].pc = "raised" /\ tasks[t].op = "init"
                 => \A i \in 1..Len(tasks[t].log) :
                       \/ tasks[t].log[i].c = tasks[t].cat
                       \/ \E j \in 1..Len(tasks[t].done) :
                             tasks[t].done[j] = tasks[t].log[i].c
           /\ tasks[t].pc = "returned"
                 => /\ snapshot["measurements"] # None
                    /\ snapshot["counters"] # None
                    /\ update_timestamp > 0

\* C18 amended: the steps of init run in the fixed order, update_status is
\* called once and after all of them, and an init that raises in a step has
\* run nothing of the later steps; a successful init whose update_status
\* found no other update in progress leaves measurements, counters and
\* update_timestamp populated by that update, and one whose update_status
\* waited for another update returns once the lock is free.
C18_InitOrder ==
    \A t \in Tasks :
        tasks[t].init
        => /\ tasks[t].done = SubSeq(ClaimedOrder, 1, Len(tasks[t].done))
           /\ tasks[t].op = "init" => tasks[t].nupd = 0 /\ tasks[t].pc # "returned"
           /\ tasks[t].op = "update_status"
                 => tasks[t].nupd = 1 /\ tasks[t].done = ClaimedOrder
           /\ tasks[t].pc = "raised" /\ tasks[t].op = "init"
                 => \A i \in 1..Len(tasks[t].log) :
                       \/ tasks[t].log[i].c = tasks[t].cat
                       \/ \E j \in 1..Len(tasks[t].done) :
                             tasks[t].done[j] = tasks[t].log[i].c
           /\ tasks[t].pc = "returned" /\ ~tasks[t].busy
                 => /\ snapshot["measurements"] # None
                    /\ snapshot["counters"] # None
                    /\ wrote["measurements"] = tasks[t].call
                    /\ wrote["counters"] = tasks[t].call
                    /\ update_timestamp = now /\ now > 0
           /\ tasks[t].pc = "returned" /\ tasks[t].busy => ~update_lock

\* C18 witness: init on a Modbus device returns after its four steps and its
\* own update_status, with the capability flags set by the probes.
C18_Witness ==
    \E t \in Tasks :
        /\ tasks[t].init /\ tasks[t].pc = "returned" /\ ~tasks[t].busy
        /\ adapter = "Modbus"
        /\ tasks[t].done = <<"basic_info", "iMC", "nominal_power", "tb_support">>
        /\ supports_time_blocks /\ supports_iMC_functions
        /\ snapshot["time_blocks"] # None
        /\ update_timestamp > 0

\* The Measurements value v carries interval statistics.
HasIntervalStats(v) == Len(v) > 1

\* C19: the result of get_measurements carries interval statistics exactly
\* if the requested measurement type is not the actual one, and for the
\* actual type a Modbus device is read once, with no interval-statistics read.
C19_IntervalStatsIffNotActual ==
    \A t \in Tasks :
        tasks[t].op = "get_measurements" /\ tasks[t].pc = "returned"
        => /\ HasIntervalStats(tasks[t].buf) <=> tasks[t].mt # "ACTUAL"
           /\ (tasks[t].mt = "ACTUAL" /\ adapter = "Modbus")
                 => Len(EventsOf(tasks[t], "read")) = 1

\* The k-th byte of a register list: high byte of a register, then its low byte.
ByteAt(registers, k) ==
    IF k % 2 = 1 THEN registers[(k + 1) \div 2] \div 256
    ELSE registers[k \div 2] % 256

\* The number of bytes of the list before its first null byte.
CutAt(registers) ==
    LET n == 2 * Len(registers)
        nulls == {k \in 1..n : ByteAt(registers, k) = 0}
    IN  IF nulls = {} THEN n
        ELSE (CHOOSE k \in nulls : \A j \in nulls : k <= j) - 1

\* The letters I, E, 3, 8.
IE38 == <<73, 69, 51, 56>>

\* C20: convert_registers_to_string returns the bytes of the registers, high
\* byte then low byte, in order, from the first to the last byte that is not
\* white space among those before the first null byte; the result holds no
\* null, and registers packing "IE38" followed by nulls give "IE38".
C20_StringIsTrimmedBytesBeforeNull ==
    step = "out" =>
        LET cut == CutAt(arg)
            solid == {k \in 1..cut : ByteAt(arg, k) \notin Whitespace}
        IN  /\ solid = {} => res = <<>>
            /\ solid # {} =>
                  LET lo == CHOOSE k \in solid : \A j \in solid : k <= j
                      hi == CHOOSE k \in solid : \A j \in solid : k >= j
                  IN  res = [i \in 1..(hi - lo + 1) |-> ByteAt(arg, lo + i - 1)]
            /\ \A i \in 1..Len(res) : res[i] # 0
            /\ (/\ Len(arg) >= 2
                /\ arg[1] = Pack(73, 69) /\ arg[2] = Pack(51, 56)
                /\ \A n \in 3..Len(arg) : arg[n] = 0)
                  => res = IE38

\* C20 witness: the registers packing "IE38" followed by a null register have
\* been converted to "IE38".
C20_Witness ==
    /\ step = "out"
    /\ arg = <<Pack(73, 69), Pack(51, 56), 0>>
    /\ res = IE38

\* C21: constructing a device for a model name that is no key of the
\* parameter table fails with DeviceNotSupported and leaves no device.
C21_UnknownModelNotSupported ==
    (step = "out" /\ \A m \in {"IE38", "IE35", "IE14"} : res.model # ModelKey(m))
        => res.err = "DeviceNotSupported" /\ res.device = None

\* C21 witness: the meter named itself "II" and the construction has failed.
C21_Witness ==
    /\ step = "out"
    /\ res.model = <<73, 73>>
    /\ res.err = "DeviceNotSupported"

\* C22: every register an accessor call of the three recipes decodes, the
\* second register of a two-register value included, lies inside
\* [start, start + count) of the registers fetched for its mapper, and no
\* accessor call is out of range.
C22_AccessInsideFetchedWindow ==
    \A i \in 1..Len(res) :
        /\ res[i].address >= res[i].start
        /\ res[i].address + res[i].width - 1 < res[i].start + res[i].count
        /\ res[i].ok

\* C22, amended: every register an accessor call decodes lies inside
\* [base, base + count), base being the address the mapper is anchored at and
\* count the number of registers fetched for it, and no call is out of range.
C22_AccessInsideMapper ==
    \A i \in 1..Len(res) :
        /\ res[i].address >= res[i].anchor
        /\ res[i].address + res[i].width - 1 < res[i].anchor + res[i].count
        /\ res[i].ok

\* C22 witness: get_measurements for the average type on a three-phase
\* device has made all its accessor calls, the one at the last register it
\* uses, 190, among them, on registers fetched at 5500.
C22_Witness ==
    /\ arg.fn = "get_measurements" /\ arg.mt = "AVERAGE" /\ step = "out"
    /\ \E i \in 1..Len(res) :
          res[i].address = 190 /\ res[i].start = 5500 /\ res[i].ok

\* C23: every mapper a recipe decodes from is anchored at the start address
\* of the read whose registers it wraps, for every measurement type and for
\* the interval statistics.
C23_MapperAnchoredAtRead ==
    \A i \in 1..Len(res) : res[i].anchor = res[i].start

\* C23, amended: the mappers of get_counters, of
\* get_time_blocks_measurements and of get_measurements for the actual type
\* are anchored at the start address of their read; for the average, max and
\* min types the measurements mapper is anchored at 100 over registers read
\* at 5500, 5600 and 5700, and the interval-statistics mapper at 100 over
\* registers read at 5500.
C23_MapperAnchor ==
    \A i \in 1..Len(res) :
        IF arg.fn = "get_measurements" /\ arg.mt # "ACTUAL"
        THEN /\ res[i].anchor = 100
             /\ res[i].start =
                   CASE res[i].mapper = "interval_stats_mapper" -> 5500
                     [] arg.mt = "AVERAGE" -> 5500
                     [] arg.mt = "MAX" -> 5600
                     [] OTHER -> 5700
        ELSE res[i].anchor = res[i].start

\* C23 witness: get_measurements for the max type has decoded from both of
\* its mappers.
C23_Witness ==
    /\ arg.fn = "get_measurements" /\ arg.mt = "MAX" /\ step = "out"
    /\ \E i, j \in 1..Len(res) :
          /\ res[i].mapper = "interval_stats_mapper"
          /\ res[j].mapper = "mapper"

\* C24: get_measurements returns one entry per phase of the model, 3 for
\* IE38 and IE35 and 1 for IE14, the k-th decoded from the registers of phase
\* k; get_counters returns 4 non-resettable counters and 16 resettable ones,
\* 8 for IE14, the k-th decoded from the settings of slot k.
C24_SizesFollowParameterTable ==
    step = "out" =>
        /\ arg.fn = "get_measurements" =>
              /\ Len(res.phases) = (IF arg.model = "IE14" THEN 1 ELSE 3)
              /\ \A k \in 1..Len(res.phases) :
                    /\ res.phases[k].voltage = <<k * arg.v, k * arg.v>>
                    /\ res.phases[k].current = <<k * arg.v, k * arg.v>>
                    /\ res.phases[k].active_power = <<k * arg.v, k * arg.v>>
                    /\ res.phases[k].reactive_power = <<k * arg.v, k * arg.v>>
                    /\ res.phases[k].apparent_power = <<k * arg.v, k * arg.v>>
                    /\ res.phases[k].power_factor = <<k * arg.v, k * arg.v>>
                    /\ res.phases[k].power_angle = k * arg.v
                    /\ res.phases[k].thd_voltage = k * arg.v
                    /\ res.phases[k].thd_current = k * arg.v
        /\ arg.fn = "get_counters" =>
              /\ Len(res.non_resettable) = 4
              /\ Len(res.resettable) = (IF arg.model = "IE14" THEN 8 ELSE 16)
              /\ \A k \in 1..Len(res.non_resettable) :
                    res.non_resettable[k].units = arg.units_nr[k - 1]
              /\ \A k \in 1..Len(res.resettable) :
                    res.resettable[k].units = arg.units_rs[k - 1]

\* C24 witness: the three phases of an IE38 have been decoded, the third
\* from registers that differ from those of the first.
C24_Witness ==
    /\ step = "out"
    /\ arg.fn = "get_measurements" /\ arg.model = "IE38"
    /\ Len(res.phases) = 3
    /\ res.phases[3].thd_current = 3 * arg.v
    /\ res.phases[1].thd_current = arg.v

\* The fetches and field assignments of a call, in the order it made them.
Fetches(r) == SelectSeq(r.log, LAMBDA e : e.e \in {"read", "rest", "write"})

\* The reads a category takes on this device.
ReadsOfCategory(c) ==
    IF adapter # "Modbus" THEN 0
    ELSE IF c = "time_blocks" /\ ~supports_time_blocks THEN 0
    ELSE Len(ReadsOf(c, "ACTUAL"))

\* C25: within one update_status call the categories are fetched in the
\* order measurements, counters, time blocks, and the field of a category is
\* assigned after the last read of that category and before the first read
\* of the next one.
C25_CategoriesInOrder ==
    \A t \in Tasks :
        tasks[t].op = "update_status" =>
            LET f == Fetches(tasks[t]) IN
            /\ \A i, j \in 1..Len(f) :
                  i < j => /\ Ord(f[i].c) <= Ord(f[j].c)
                           /\ f[i].e = "write" => Ord(f[i].c) < Ord(f[j].c)
            /\ \A i \in 1..Len(f) :
                  f[i].e = "write" =>
                     /\ Cardinality({k \in 1..(i - 1) :
                            f[k].c = f[i].c /\ f[k].e = "read"})
                          = ReadsOfCategory(f[i].c)
                     /\ \A c \in Categories :
                           Ord(c) < Ord(f[i].c) =>
                              \E k \in 1..(i - 1) : f[k] = [e |-> "write", c |-> c]

\* C25 witness: an update on a Modbus device with time blocks has assigned
\* all three fields, each after the reads of its category.
C25_Witness ==
    \E t \in Tasks :
        /\ tasks[t].op = "update_status" /\ tasks[t].pc = "returned"
        /\ adapter = "Modbus" /\ supports_time_blocks
        /\ Written(tasks[t], "time_blocks")
        /\ Len(EventsOf(tasks[t], "read")) = 10

\* C26: get_measurements for a measurement type other than the actual one,
\* on a device whose supports_interval_measurements is false, fails with
\* MeasurementTypeNotSupported before it issues a read or opens the connection.
C26_NotSupportedBeforeAnyRead ==
    \A t \in Tasks :
        /\ tasks[t].op = "get_measurements" /\ tasks[t].mt # "ACTUAL"
        /\ ~supports_interval_measurements
        /\ tasks[t].pc # "gm_83"
        => /\ tasks[t].pc = "raised"
           /\ tasks[t].err = "MeasurementTypeNotSupported"
           /\ tasks[t].log = <<>>

\* C26 witness: such a call has failed while an update_status call of another
\* caller was reading the device.
C26_Witness ==
    \E t, u \in Tasks :
        /\ tasks[t].op = "get_measurements" /\ tasks[t].mt = "AVERAGE"
        /\ ~supports_interval_measurements
        /\ tasks[t].pc = "raised"
        /\ tasks[t].err = "MeasurementTypeNotSupported"
        /\ tasks[u].op = "update_status" /\ tasks[u].holds

\* C27: check_time_blocks_support returns true exactly if the raw value v of
\* the software-version register is below 100 or above 150, and false for
\* every v from 100 to 150, both included.
C27_SupportOutsideVersions100To150 ==
    step = "out" =>
        LET v == arg.cnf_data[1] IN
        /\ res = TRUE <=> (v < 100 \/ v > 150)
        /\ v \in 100..150 => res = FALSE

\* C27 witness: the probe has answered false for version 1.50.
C27_Witness ==
    step = "out" /\ arg.cnf_data = <<150>> /\ res = FALSE

\* No call is running on the device, and update_status is the only
\* operation that has been called on it.
OnlyUpdatesAllEnded ==
    \A t \in Tasks :
        /\ tasks[t].pc \in {"idle", "returned", "raised"}
        /\ tasks[t].op \in {"none", "update_status"}

\* C28: whenever no update_status call holds the update lock on a Modbus
\* device and no operation is in progress on the adapter, the connection is
\* closed, also after an update_status call that failed at a read.
C28_ClosedWhenNoUpdateRuns ==
    (adapter = "Modbus" /\ ~update_lock /\ OnlyUpdatesAllEnded) => ~connected

\* The step closes the connection by the hand of task t.
Closes(t) ==
    /\ connected /\ ~connected'
    /\ Len(EventsOf(tasks'[t], "close")) > Len(EventsOf(tasks[t], "close"))

\* C29: while an update_status call holds the update lock between its
\* connection open and its connection close, no other operation on the
\* adapter closes the connection.
C29_NobodyClosesUnderUpdate ==
    [][\A u \in Tasks :
          (tasks[u].op = "update_status" /\ InOpenSpan(tasks[u]))
             => \A t \in Tasks \ {u} : ~Closes(t)]_vars

\* C30: a direct call of get_counters or get_time_blocks_measurements, alone
\* on the adapter, leaves the connection as it found it: entered with the
\* connection closed it leaves it closed whether it returns or raises,
\* entered with it open it leaves it open.
C30_DirectCallRestoresConnection ==
    \A t \in Tasks :
        /\ tasks[t].op \in {"get_counters", "get_time_blocks_measurements"}
        /\ tasks[t].pc \in {"returned", "raised"}
        /\ adapter = "Modbus"
        /\ \A u \in Tasks \ {t} : tasks[u].pc = "idle"
        => /\ tasks[t].hd => ~connected
           /\ (~tasks[t].hd /\ EventsOf(tasks[t], "read") # <<>>) => connected

\* C31: the software version that check_time_blocks_support decides on is
\* the value of the register get_basic_info reports as sw_ver, so on one
\* meter both see the same version.
C31_SameVersionRegister ==
    step = "out" => res.sw_ver = res.sw_version

====
